----------------------------- MODULE ByteStream -----------------------------
(***************************************************************************)
(* What a pipe promises: a bounded stream of bytes, read once and in the   *)
(* order in which they were written.                                       *)
(***************************************************************************)
EXTENDS Naturals, Sequences

CONSTANTS Byte, Capacity

VARIABLES
    stream,   \* the bytes written and not yet read
    got       \* the byte read last

streamvars == <<stream, got>>

StreamInit == stream = <<>> /\ got \in Byte

Put(b) ==
    /\ Len(stream) < Capacity
    /\ stream' = Append(stream, b)
    /\ UNCHANGED got

Get ==
    /\ stream # <<>>
    /\ got' = Head(stream)
    /\ stream' = Tail(stream)

StreamNext == Get \/ \E b \in Byte : Put(b)

StreamSpec == StreamInit /\ [][StreamNext]_streamvars
=============================================================================

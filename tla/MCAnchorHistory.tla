-------------------------- MODULE MCAnchorHistory --------------------------
(***************************************************************************)
(* AnchorHistory on small instances in which the order of the timestamp    *)
(* and offset texts is the order of what they denote: whole seconds, and   *)
(* offsets padded to one width, as the test vectors have them.             *)
(***************************************************************************)
EXTENDS AnchorHistory

CONSTANTS r1, p1, p2, v1, v2

MCTimeRank   == [t \in Times |-> t]
MCOffsetRank == [o \in Offsets |-> o]
=============================================================================

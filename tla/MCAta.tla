-------------------------------- MODULE MCAta --------------------------------
(* A master and a slave on the first channel, a CD drive on the second.      *)
EXTENDS Ata, TLC

CONSTANTS c1, c2, boot

MCKind == 0 :> "ata" @@ 1 :> "ata" @@ 2 :> "packet" @@ 3 :> "none"

Ask(type, drive, location, sectors) ==
  [type |-> type, drive |-> drive, location |-> location, sectors |-> sectors]

MCRequests == {Ask("read", 0, 0, 2), Ask("write", 0, 1, 2), Ask("read", 1, 3, 1),
               Ask("write", 1, 3, 1), Ask("read", 2, 0, 1), Ask("other", 0, 0, 1)}
MCData == {[k \in 0 .. 1 |-> 100 + k]}
=============================================================================

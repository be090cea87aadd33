--------------------------- MODULE MCArbitration ---------------------------
(***************************************************************************)
(* Three parts of brokerd that do not share state, each from its own       *)
(* initial state.                                                          *)
(*   arbitration: r1 and r2 present the same request, s1 another one, to a *)
(*     queue of one.                                                       *)
(*   mirror: three files of anchors, one whose second signature repeats    *)
(*     the first; receipts of two mirrors, for two epochs, one forged.     *)
(*   start: the start of a daemon, over two versions of the provisioned    *)
(*     files with a keyring each, and two of the measured components.      *)
(***************************************************************************)
EXTENDS Arbitration, Mirror, Boot, TLC

CONSTANTS r1, r2, s1, i, j, k1, k2, m1, m2, b1, b2, v1, v2, q1, q2
VARIABLE part

MCIdOf == [r \in Reqs |-> IF r = s1 THEN j ELSE i]
Symmetry == Permutations({r1, r2})

Anchor(n, bundle, start, end) == [epoch |-> n, bundle |-> bundle, start |-> start, end |-> end]
File(signers, anchors) == [signers |-> signers, entries |-> anchors]
MCFiles ==
  {File(<<k1, k2>>, {Anchor(0, b1, 0, 2), Anchor(1, b1, 2, 4)}),
   File(<<k2, k1>>, {Anchor(0, b2, 1, 3)}),
   File(<<k1, k1>>, {Anchor(0, b1, 0, 3)})}

Receipt(cell, n, bundle, genuine) ==
  [cell |-> cell, epoch |-> n, bundle |-> bundle, genuine |-> genuine]
MCReceipts ==
  {Receipt(m1, 0, b1, TRUE), Receipt(m2, 0, b1, TRUE),
   Receipt(m1, 1, b1, TRUE), Receipt(m1, 0, b2, FALSE)}

MCKeyring == (v1 :> q1) @@ (v2 :> q2)

Pinned == /\ daemon = "pepd" /\ provFiles = v1 /\ witness = NoFile
          /\ components = CHOOSE c \in ComponentVersions : TRUE

MCInit ==
  /\ part \in {"arbitration", "mirror", "start"}
  /\ Init /\ MirrorInit /\ BootInit
  /\ part # "mirror" => file = CHOOSE f \in AnchorFiles : TRUE
  /\ part # "start" => Pinned
MCNext ==
  \/ part = "arbitration" /\ Next /\ UNCHANGED <<mirrorVars, bootVars, part>>
  \/ part = "mirror" /\ MirrorNext /\ UNCHANGED <<vars, bootVars, part>>
  \/ part = "start" /\ BootNext /\ UNCHANGED <<vars, mirrorVars, part>>
MCSpec == MCInit /\ [][MCNext]_<<vars, mirrorVars, bootVars, part>>
=============================================================================

------------------------------- MODULE Mirror -------------------------------
(***************************************************************************)
(* The mirror cell of degraded mode: the file of anchors signed by the     *)
(* controllers (cluster.FileAnchorSource), the decision to promote a       *)
(* candidate (cluster.PromotionController), and the promotion brokerd      *)
(* keeps and restores from its journal (mirrorGate).                       *)
(*                                                                         *)
(* The file is read and verified anew at every question, so a promotion    *)
(* reads it three times: bundle, window, and the window again once the     *)
(* leaf is written and the controller's mutex released.  Two handlers of   *)
(* the admin socket may be under way, and the controllers may replace the  *)
(* file at any point.                                                      *)
(***************************************************************************)
EXTENDS Naturals, Sequences, FiniteSets, Functions

CONSTANTS AnchorFiles,    \* files that may be installed: [signers, entries]
          Signatories, AnchorQuorum, MaxAnchorWindow,
          Receipts,       \* [cell, epoch, bundle, genuine]
          MirrorKeys,     \* candidate cells of the measured key file
          MirrorEpochs, Promoters,
          NoCell, NoAuthority,
          MaxNow, MaxPromotions, MaxFileChanges, MaxMirrorCrashes

ASSUME MirrorAssumption ==
  /\ AnchorQuorum \in 1..Cardinality(Signatories)
  /\ {MaxAnchorWindow, MaxNow, MaxPromotions, MaxFileChanges, MaxMirrorCrashes} \subseteq Nat
  /\ NoCell \notin MirrorKeys

VARIABLES
  mirrorClock, file,
  current,      \* CurrentEpoch(): an epoch or NoAuthority
  promoter,     \* [Promoters -> [pc, receipt]]: handlers of /v1/mirror/promote
  gate,         \* mirrorGate: [cell, epoch, end]
  journalled,   \* promoted records of the journal: <<[receipt, inLog]>>
  restoring,    \* "up" in service, "bundle" or "window" inside Restore
  fileChanges, mirrorCrashes,
  signedFiles   \* history: the verified files installed so far

mirrorVars == <<mirrorClock, file, current, promoter, gate, journalled, restoring,
                fileChanges, mirrorCrashes, signedFiles>>

NoPromotion == [cell |-> NoCell, epoch |-> 0, end |-> 0]
Quiet == [pc |-> "idle"]

(***************************************************************************)
(* FileAnchorSource.Verify, BundleAnchor, HealthyWindow                    *)
(***************************************************************************)
Verifies(f) ==
  /\ IsInjective(f.signers) /\ Range(f.signers) \subseteq Signatories
  /\ Len(f.signers) >= AnchorQuorum
  /\ f.entries # {}
  /\ \A e \in f.entries : e.end > e.start /\ e.end - e.start <= MaxAnchorWindow
  /\ \A e, d \in f.entries : e.epoch = d.epoch => e = d

AnchorEntries(f, n) == IF Verifies(f) THEN {e \in f.entries : e.epoch = n} ELSE {}

BundleAnchored(f, r) == \E e \in AnchorEntries(f, r.epoch) : e.bundle = r.bundle
WindowOpen(f, n) == \E e \in AnchorEntries(f, n) : e.start <= mirrorClock /\ mirrorClock < e.end

(***************************************************************************)
(* PromotionController.Promote.  A refusal leaves a leaf and changes       *)
(* nothing else; the mutex is held from the first read to the leaf.        *)
(***************************************************************************)
Genuine(r) == r.cell \in MirrorKeys /\ r.genuine

Promote(p, r) ==
  /\ restoring = "up"
  /\ promoter[p].pc = "idle" /\ \A q \in Promoters : promoter[q].pc # "window"
  /\ Len(journalled) < MaxPromotions
  /\ Genuine(r) /\ BundleAnchored(file, r)
  /\ promoter' = [promoter EXCEPT ![p] = [pc |-> "window", receipt |-> r]]
  /\ UNCHANGED <<mirrorClock, file, current, gate, journalled, restoring, fileChanges,
                 mirrorCrashes, signedFiles>>

RefuseWindow(p) ==
  /\ promoter[p].pc = "window" /\ ~WindowOpen(file, promoter[p].receipt.epoch)
  /\ promoter' = [promoter EXCEPT ![p] = Quiet]
  /\ UNCHANGED <<mirrorClock, file, current, gate, journalled, restoring, fileChanges,
                 mirrorCrashes, signedFiles>>

\* The clear record is journalled first; the leaf may still fail.
PromotionLeaf(p, inLog) ==
  /\ promoter[p].pc = "window" /\ WindowOpen(file, promoter[p].receipt.epoch)
  /\ journalled' = Append(journalled, [receipt |-> promoter[p].receipt, inLog |-> inLog])
  /\ promoter' = [promoter EXCEPT ![p] = IF inLog THEN [@ EXCEPT !.pc = "retain"] ELSE Quiet]
  /\ UNCHANGED <<mirrorClock, file, current, gate, restoring, fileChanges, mirrorCrashes, signedFiles>>

\* mirrorGate.Promote after the controller: the window read again bounds the
\* promotion; without it the request fails although the leaf says "ok".
Retain(p) ==
  LET r == promoter[p].receipt
      windows == AnchorEntries(file, r.epoch) IN
  /\ promoter[p].pc = "retain"
  /\ IF windows = {} THEN UNCHANGED gate
     ELSE \E e \in windows : gate' = [cell |-> r.cell, epoch |-> r.epoch, end |-> e.end]
  /\ promoter' = [promoter EXCEPT ![p] = Quiet]
  /\ UNCHANGED <<mirrorClock, file, current, journalled, restoring, fileChanges, mirrorCrashes,
                 signedFiles>>

\* mirrorGate.Status
MirrorAvailable ==
  /\ gate.cell # NoCell
  /\ current = gate.epoch
  /\ mirrorClock < gate.end

(***************************************************************************)
(* A restart of brokerd: mirrorGate.Restore reads the last promoted record *)
(* of the journal, then the file, twice.                                   *)
(***************************************************************************)
MirrorCrash ==
  /\ mirrorCrashes < MaxMirrorCrashes
  /\ mirrorCrashes' = mirrorCrashes + 1
  /\ gate' = NoPromotion
  /\ promoter' = [p \in Promoters |-> Quiet]
  /\ restoring' = "bundle"
  /\ UNCHANGED <<mirrorClock, file, current, journalled, fileChanges, signedFiles>>

LastEntry == journalled[Len(journalled)]

Restorable_Unlogged ==
  /\ journalled # <<>>
  /\ LastEntry.receipt.cell \in MirrorKeys
  /\ BundleAnchored(file, LastEntry.receipt)

Restorable ==
  /\ journalled # <<>> /\ LastEntry.inLog
  /\ LastEntry.receipt.cell \in MirrorKeys
  /\ BundleAnchored(file, LastEntry.receipt)

RestoreBundle ==
  /\ restoring = "bundle"
  /\ restoring' = IF Restorable THEN "window" ELSE "up"
  /\ UNCHANGED <<mirrorClock, file, current, promoter, gate, journalled, fileChanges,
                 mirrorCrashes, signedFiles>>

RestoreWindow ==
  LET r == LastEntry.receipt
      running == {e \in AnchorEntries(file, r.epoch) : mirrorClock < e.end} IN
  /\ restoring = "window"
  /\ IF running = {} THEN UNCHANGED gate
     ELSE \E e \in running : gate' = [cell |-> r.cell, epoch |-> r.epoch, end |-> e.end]
  /\ restoring' = "up"
  /\ UNCHANGED <<mirrorClock, file, current, promoter, journalled, fileChanges, mirrorCrashes,
                 signedFiles>>

(***************************************************************************)
(* The controllers replace the file, epochs advance or lapse, time passes. *)
(***************************************************************************)
ReplaceFile(f) ==
  /\ f # file /\ fileChanges < MaxFileChanges
  /\ file' = f
  /\ fileChanges' = fileChanges + 1
  /\ signedFiles' = signedFiles \cup {g \in {f} : Verifies(g)}
  /\ UNCHANGED <<mirrorClock, current, promoter, gate, journalled, restoring, mirrorCrashes>>

EpochChanges(n) ==
  /\ n # current
  /\ current' = n
  /\ UNCHANGED <<mirrorClock, file, promoter, gate, journalled, restoring, fileChanges,
                 mirrorCrashes, signedFiles>>

MirrorTick ==
  /\ mirrorClock < MaxNow
  /\ mirrorClock' = mirrorClock + 1
  /\ UNCHANGED <<file, current, promoter, gate, journalled, restoring, fileChanges,
                 mirrorCrashes, signedFiles>>

MirrorInit ==
  /\ mirrorClock = 0 /\ file \in AnchorFiles /\ current = 0
  /\ promoter = [p \in Promoters |-> Quiet]
  /\ gate = NoPromotion /\ journalled = <<>> /\ restoring = "up"
  /\ fileChanges = 0 /\ mirrorCrashes = 0
  /\ signedFiles = {f \in {file} : Verifies(f)}

MirrorNext ==
  \/ \E p \in Promoters :
       \/ \E r \in Receipts : Promote(p, r)
       \/ RefuseWindow(p) \/ Retain(p)
       \/ \E inLog \in BOOLEAN : PromotionLeaf(p, inLog)
  \/ MirrorCrash \/ RestoreBundle \/ RestoreWindow \/ MirrorTick
  \/ \E f \in AnchorFiles : ReplaceFile(f)
  \/ \E n \in MirrorEpochs \cup {NoAuthority} : EpochChanges(n)

MirrorSpec == MirrorInit /\ [][MirrorNext]_mirrorVars

(***************************************************************************)
(* Properties                                                              *)
(***************************************************************************)
Logged(cell, n) ==
  {i \in DOMAIN journalled : /\ journalled[i].inLog
                             /\ journalled[i].receipt.cell = cell
                             /\ journalled[i].receipt.epoch = n}

\* Critical systems fail over to a mirror only if a promotion of that cell for
\* the current epoch is in the signed log, for a bundle the controllers
\* anchored, and before an end of window they signed for that epoch, restarts
\* and replaced files included.
FailoverIsAnchored ==
  MirrorAvailable =>
    /\ \E i \in Logged(gate.cell, gate.epoch), f \in signedFiles :
         BundleAnchored(f, journalled[i].receipt)
    /\ \E f \in signedFiles : \E e \in AnchorEntries(f, gate.epoch) : e.end = gate.end
=============================================================================

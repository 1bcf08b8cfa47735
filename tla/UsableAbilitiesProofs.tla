------------------------- MODULE UsableAbilitiesProofs -------------------------
(***************************************************************************)
(* Theorems about the client's spell gate (SpellUsability), the hands      *)
(* (HandEquipment) and the combat abilities (CombatAbilities), for every   *)
(* set of classes, masks, spells and items, every nesting of the gate's    *)
(* calls, and every buffer the client copies abilities from.               *)
(***************************************************************************)
EXTENDS UsableAbilities, ClassOrderProofs

Frame == Gate \cup Path \cup Rule

SnapshotType == [active : BOOLEAN, correlation : {0, 1}, resolved : BOOLEAN,
                 class : AnyClass, masked : BOOLEAN, mask : Masks, late : BOOLEAN]

\* Only a rule is called from a gate, which has read its mask by then, and only
\* from there.
FramesNest ==
    /\ frames # <<>> => frames[1].kind # "rule"
    /\ \A i \in 1 .. Len(frames) - 1 :
          /\ frames[i].kind = "gate" <=> frames[i + 1].kind = "rule"
          /\ frames[i].kind = "gate" =>
                frames[i].at = "masked" /\ frames[i].class \in frames[i].mask

\* The class the resolver's detour records for a gate, the mask the getter's does.
ResolvedAs(gate, seen) ==
    /\ seen.resolved = ("resolver" \in installed)
    /\ seen.class = IF seen.resolved /\ gate.readable THEN gate.class ELSE NoClass

MaskedAs(gate, seen) ==
    /\ seen.masked = ("getter" \in installed)
    /\ seen.masked => seen.mask = gate.mask

\* What the snapshot says of a gate, stage by stage.  A gate that has read a mask
\* with its class may lose the snapshot to one its rules nest.
Stage(gate, seen) ==
    /\ gate.at = "entered" =>
          seen = [NoSnapshot EXCEPT !.active = TRUE, !.correlation = correlation]
    /\ gate.at = "resolved" =>
          /\ seen.active /\ seen.correlation = correlation
          /\ ~seen.late /\ ~seen.masked
          /\ ResolvedAs(gate, seen)
    /\ gate.at = "masked" =>
          /\ gate.class \in gate.mask
          /\ seen.active => ResolvedAs(gate, seen) /\ MaskedAs(gate, seen)
    /\ gate.at = "done" =>
          \/ gate.result
          \/ /\ gate.class \in gate.mask \/ (seen.active /\ ~seen.late)
             /\ seen.active => ResolvedAs(gate, seen) /\ MaskedAs(gate, seen)

Innermost(i) ==
    /\ frames[i].kind = "gate"
    /\ \A j \in i + 1 .. Len(frames) : frames[j].kind # "gate"

\* The snapshot is the innermost gate's, or empty.
SnapshotIsInnermost ==
    /\ snapshot.active \/ snapshot = NoSnapshot
    /\ \A i \in 1 .. Len(frames) : Innermost(i) => Stage(frames[i], snapshot)

GateInv ==
    /\ auth \in Masks
    /\ GateTypeOK
    /\ FramesNest
    /\ SnapshotIsInnermost

------------------------------------------------------------------------------
(* The calls in progress *)

LEMMA FrameKinds ==
    ASSUME NEW frame \in Frame
    PROVE  /\ frame \in Gate <=> frame.kind = "gate"
           /\ frame.kind \in {"gate", "path", "rule"}
BY DEF Frame, Gate, Path, Rule

LEMMA InsideFrame ==
    ASSUME GateTypeOK, NEW kind, Inside(kind)
    PROVE  /\ Len(frames) \in Nat \ {0}
           /\ Top = frames[Len(frames)] /\ Top \in Frame /\ Top.kind = kind
           /\ kind = "gate" => Top \in Gate
<1>1. frames \in Seq(Frame) /\ frames # <<>> /\ Top.kind = kind
  BY DEF GateTypeOK, Frame, Inside
<1>2. Len(frames) \in Nat \ {0}
  BY <1>1, EmptySeq
<1>3. Top = frames[Len(frames)] /\ Top \in Frame
  BY <1>1, <1>2, ElementOfSeq DEF Top
<1> QED
  BY <1>1, <1>2, <1>3, FrameKinds

\* A gate that is not the innermost call has read a mask with its class.
LEMMA GateBelow ==
    ASSUME GateInv, ~Inside("gate"), NEW i \in 1 .. Len(frames), frames[i].kind = "gate"
    PROVE  frames[i].at = "masked" /\ i \in 1 .. Len(frames) - 1
<1>1. frames \in Seq(Frame) /\ Len(frames) \in Nat
  BY LenProperties DEF GateInv, GateTypeOK, Frame
<1>2. frames # <<>>
  BY <1>1, EmptySeq
<1>3. i # Len(frames)
  BY <1>2 DEF Inside, Top
<1> QED
  BY <1>1, <1>3 DEF GateInv, FramesNest

\* The snapshot is the one of the gate that is the innermost call.
LEMMA TopStaged ==
    ASSUME GateInv, Inside("gate")
    PROVE  Stage(Top, snapshot)
<1>1. Len(frames) \in Nat \ {0} /\ Top = frames[Len(frames)] /\ Top.kind = "gate"
  BY InsideFrame DEF GateInv
<1>2. Innermost(Len(frames))
  BY <1>1 DEF Innermost
<1> QED
  BY <1>1, <1>2 DEF GateInv, SnapshotIsInnermost

LEMMA NoSnapshotType == NoSnapshot \in SnapshotType /\ ~NoSnapshot.active
BY DEF NoSnapshot, SnapshotType, AnyClass, Masks

\* A step within a gate.
LEMMA TopStep ==
    ASSUME GateInv, Inside("gate"), auth' \in Masks, NEW gate \in Gate,
           frames' = WithTop(gate), UNCHANGED <<installed, correlation>>,
           snapshot' \in SnapshotType, snapshot'.active \/ snapshot' = NoSnapshot,
           Stage(gate, snapshot)'
    PROVE  GateInv'
<1> USE DEF GateInv
<1>1. frames \in Seq(Frame) /\ gate \in Frame /\ gate.kind = "gate"
  BY DEF GateTypeOK, Frame, Gate
<1>2. Len(frames) \in Nat \ {0} /\ frames[Len(frames)].kind = "gate"
  BY InsideFrame
<1>3. /\ frames' \in Seq(Frame) /\ Len(frames') = Len(frames)
      /\ \A j \in 1 .. Len(frames) : frames'[j] = IF j = Len(frames) THEN gate ELSE frames[j]
  BY <1>1, <1>2, ExceptSeq DEF WithTop
<1>4. GateTypeOK'
  BY <1>3 DEF GateTypeOK, Frame, SnapshotType
<1>5. FramesNest'
  <2>1. frames'[1].kind # "rule"
    BY <1>1, <1>2, <1>3 DEF FramesNest
  <2>2. ASSUME NEW i \in 1 .. Len(frames) - 1
        PROVE  /\ frames'[i].kind = "gate" <=> frames'[i + 1].kind = "rule"
               /\ frames'[i].kind = "gate" =>
                     frames'[i].at = "masked" /\ frames'[i].class \in frames'[i].mask
    <3>1. frames'[i] = frames[i] /\ frames'[i + 1].kind = frames[i + 1].kind
      BY <1>1, <1>2, <1>3
    <3> QED
      BY <3>1 DEF FramesNest
  <2> QED
    BY <1>3, <2>1, <2>2 DEF FramesNest
<1>6. SnapshotIsInnermost'
  <2>1. \A i \in 1 .. Len(frames') : Innermost(i)' => i = Len(frames)
    BY <1>1, <1>2, <1>3 DEF Innermost
  <2>2. frames'[Len(frames)] = gate
    BY <1>2, <1>3
  <2> QED
    BY <2>1, <2>2 DEF SnapshotIsInnermost
<1> QED
  BY <1>4, <1>5, <1>6

LEMMA FramesPrefix ==
    ASSUME GateInv, NEW n \in 0 .. Len(frames)
    PROVE  /\ SubSeq(frames, 1, n) \in Seq(Frame)
           /\ Len(SubSeq(frames, 1, n)) = n
           /\ \A j \in 1 .. n : SubSeq(frames, 1, n)[j] = frames[j]
<1>1. frames \in Seq(Frame)
  BY DEF GateInv, GateTypeOK, Frame
<1>2. Len(frames) \in Nat /\ n \in Nat
  BY <1>1, LenProperties
<1>3. \A j \in 1 .. n : frames[j] \in Frame
  BY <1>1, <1>2, ElementOfSeq
<1>4. n - 1 + 1 = n /\ \A j \in 1 .. n : 1 + j - 1 = j
  BY <1>2
<1>5. /\ SubSeq(frames, 1, n) \in Seq(Frame)
      /\ Len(SubSeq(frames, 1, n)) = IF 1 <= n THEN n - 1 + 1 ELSE 0
      /\ \A j \in 1 .. n - 1 + 1 : SubSeq(frames, 1, n)[j] = frames[1 + j - 1]
  BY <1>2, <1>3, SubSeqProperties
<1> QED
  BY <1>2, <1>4, <1>5

\* A call that is over leaves the calls around it.
LEMMA FramesPopped ==
    ASSUME GateInv, frames # <<>>, frames' = Front(frames)
    PROVE  /\ Len(frames) \in Nat \ {0}
           /\ frames' \in Seq(Frame) /\ Len(frames') = Len(frames) - 1
           /\ \A j \in 1 .. Len(frames) - 1 : frames'[j] = frames[j]
           /\ FramesNest'
<1>1. frames \in Seq(Frame)
  BY DEF GateInv, GateTypeOK, Frame
<1>2. Len(frames) \in Nat \ {0}
  BY <1>1, EmptySeq
<1>3. Len(frames) - 1 \in 0 .. Len(frames)
  BY <1>2
<1>4. /\ frames' \in Seq(Frame)
      /\ Len(frames') = Len(frames) - 1
      /\ \A j \in 1 .. Len(frames) - 1 : frames'[j] = frames[j]
  BY <1>3, FramesPrefix DEF Front
<1>5. frames' # <<>> => frames'[1] = frames[1]
  <2>1. frames' # <<>> => Len(frames') \in Nat \ {0}
    BY <1>4, EmptySeq
  <2> QED
    BY <1>2, <1>4, <2>1
<1>6. FramesNest'
  BY <1>2, <1>4, <1>5 DEF GateInv, FramesNest
<1> QED
  BY <1>2, <1>4, <1>6

\* A call in progress makes another.
LEMMA FramesPushed ==
    ASSUME GateInv, NEW frame \in Frame, frames' = Append(frames, frame),
           IF Inside("gate")
           THEN frame.kind = "rule" /\ Top.at = "masked" /\ Top.class \in Top.mask
           ELSE frame.kind # "rule"
    PROVE  /\ Len(frames) \in Nat
           /\ frames' \in Seq(Frame) /\ Len(frames') = Len(frames) + 1
           /\ frames'[Len(frames) + 1] = frame
           /\ \A j \in 1 .. Len(frames) : frames'[j] = frames[j]
           /\ FramesNest'
<1>1. frames \in Seq(Frame)
  BY DEF GateInv, GateTypeOK, Frame
<1>2. Len(frames) \in Nat /\ (frames # <<>> <=> Len(frames) # 0)
  BY <1>1, EmptySeq, LenProperties
<1>3. /\ frames' \in Seq(Frame) /\ Len(frames') = Len(frames) + 1
      /\ frames'[Len(frames) + 1] = frame
      /\ \A j \in 1 .. Len(frames) : frames'[j] = frames[j]
  BY <1>1, AppendProperties
<1>4. Inside("gate") <=> Len(frames) # 0 /\ frames[Len(frames)].kind = "gate"
  BY <1>2 DEF Inside, Top
<1>5. frames'[1].kind # "rule"
  BY <1>2, <1>3, <1>4 DEF GateInv, FramesNest
<1>6. ASSUME NEW i \in 1 .. Len(frames') - 1
      PROVE  /\ frames'[i].kind = "gate" <=> frames'[i + 1].kind = "rule"
             /\ frames'[i].kind = "gate" =>
                   frames'[i].at = "masked" /\ frames'[i].class \in frames'[i].mask
  <2>1. CASE i = Len(frames)
    BY <1>2, <1>3, <1>4, <2>1 DEF Top
  <2>2. CASE i # Len(frames)
    <3>1. i \in 1 .. Len(frames) - 1 /\ i + 1 \in 1 .. Len(frames)
      BY <1>2, <1>3, <2>2
    <3> QED
      BY <1>3, <3>1 DEF GateInv, FramesNest
  <2> QED
    BY <2>1, <2>2
<1> QED
  BY <1>2, <1>3, <1>5, <1>6 DEF FramesNest

LEMMA EnterPathStep == GateInv /\ EnterPath /\ UNCHANGED auth => GateInv'
<1> SUFFICES ASSUME GateInv, EnterPath, UNCHANGED auth PROVE GateInv'
  OBVIOUS
<1> USE DEF GateInv
<1> DEFINE path == [kind |-> "path", assigns |-> correlation = 0]
<1>1. /\ frames' = Append(frames, path) /\ correlation' = 1 /\ ~Inside("gate")
      /\ UNCHANGED <<installed, snapshot>>
  BY DEF EnterPath, CanCall, Inside
<1>2. path \in Frame /\ path.kind = "path"
  BY DEF Frame, Path
<1> HIDE DEF path
<1>3. /\ Len(frames) \in Nat
      /\ frames' \in Seq(Frame) /\ Len(frames') = Len(frames) + 1
      /\ frames'[Len(frames) + 1] = path
      /\ \A j \in 1 .. Len(frames) : frames'[j] = frames[j]
      /\ FramesNest'
  BY <1>1, <1>2, FramesPushed
<1>4. GateTypeOK'
  BY <1>1, <1>3 DEF GateTypeOK, Frame
<1>5. SnapshotIsInnermost'
  <2>1. ASSUME NEW i \in 1 .. Len(frames'), Innermost(i)'
        PROVE  Stage(frames[i], snapshot)'
    <3>1. i \in 1 .. Len(frames)
      BY <1>2, <1>3, <2>1 DEF Innermost
    <3>2. frames'[i] = frames[i] /\ Innermost(i)
      BY <1>3, <2>1, <3>1 DEF Innermost
    <3>3. frames[i].at = "masked" /\ Stage(frames[i], snapshot)
      BY <1>1, <3>1, <3>2, GateBelow DEF SnapshotIsInnermost, Innermost
    <3> QED
      BY <1>1, <3>2, <3>3 DEF Stage, ResolvedAs, MaskedAs
  <2> QED
    BY <1>1, <2>1 DEF SnapshotIsInnermost
<1> QED
  BY <1>3, <1>4, <1>5

LEMMA EnterGateStep ==
    ASSUME GateInv, NEW known \in BOOLEAN, NEW readable \in BOOLEAN, NEW class \in AnyClass,
           EnterGate(known, class, readable), UNCHANGED auth
    PROVE  GateInv'
<1> USE DEF GateInv
<1> DEFINE gate == [kind |-> "gate", known |-> known, at |-> "entered", class |-> class,
                    readable |-> readable, mask |-> {}, result |-> FALSE]
<1>1. /\ frames' = Append(frames, gate) /\ ~Inside("gate")
      /\ snapshot' = [NoSnapshot EXCEPT !.active = TRUE, !.correlation = correlation]
      /\ UNCHANGED <<installed, correlation>>
  BY DEF EnterGate, CanCall, Inside
<1>2. gate \in Frame /\ gate.kind = "gate" /\ gate.at = "entered"
  BY DEF Frame, Gate, Masks
<1> HIDE DEF gate
<1>3. /\ Len(frames) \in Nat
      /\ frames' \in Seq(Frame) /\ Len(frames') = Len(frames) + 1
      /\ frames'[Len(frames) + 1] = gate
      /\ FramesNest'
  BY <1>1, <1>2, FramesPushed
<1>4. snapshot' \in SnapshotType /\ snapshot'.active
  BY <1>1 DEF NoSnapshot, SnapshotType, AnyClass, Masks, GateTypeOK
<1>5. GateTypeOK'
  BY <1>1, <1>3, <1>4 DEF GateTypeOK, Frame, SnapshotType
<1>6. SnapshotIsInnermost'
  <2>1. ASSUME NEW i \in 1 .. Len(frames'), Innermost(i)'
        PROVE  Stage(frames[i], snapshot)'
    <3>1. frames'[i] = gate
      BY <1>2, <1>3, <2>1 DEF Innermost
    <3> QED
      BY <1>1, <1>2, <3>1 DEF Stage
  <2> QED
    BY <1>4, <2>1 DEF SnapshotIsInnermost
<1> QED
  BY <1>3, <1>5, <1>6

LEMMA CallRuleStep == GateInv /\ CallRule /\ UNCHANGED auth => GateInv'
<1> SUFFICES ASSUME GateInv, CallRule, UNCHANGED auth PROVE GateInv'
  OBVIOUS
<1> USE DEF GateInv
<1> DEFINE rule == [kind |-> "rule"]
<1>1. /\ frames' = Append(frames, rule) /\ Inside("gate") /\ Top.at = "masked"
      /\ UNCHANGED <<installed, snapshot, correlation>>
  BY DEF CallRule
<1>6. Top.class \in Top.mask
  BY <1>1, TopStaged DEF Stage
<1>2. rule \in Frame /\ rule.kind = "rule"
  BY DEF Frame, Rule
<1> HIDE DEF rule
<1>3. /\ Len(frames) \in Nat
      /\ frames' \in Seq(Frame) /\ Len(frames') = Len(frames) + 1
      /\ frames'[Len(frames) + 1] = rule
      /\ \A j \in 1 .. Len(frames) : frames'[j] = frames[j]
      /\ FramesNest'
  BY <1>1, <1>2, <1>6, FramesPushed
<1>4. GateTypeOK'
  BY <1>1, <1>3 DEF GateTypeOK, Frame
<1>5. ASSUME NEW i \in 1 .. Len(frames'), Innermost(i)'
      PROVE  Stage(frames[i], snapshot)'
  <2>1. i \in 1 .. Len(frames)
    BY <1>2, <1>3, <1>5 DEF Innermost
  <2>2. frames'[i] = frames[i] /\ Innermost(i)
    BY <1>3, <1>5, <2>1 DEF Innermost
  <2> QED
    BY <1>1, <2>1, <2>2 DEF SnapshotIsInnermost, Stage, ResolvedAs, MaskedAs
<1> QED
  BY <1>1, <1>3, <1>4, <1>5 DEF SnapshotIsInnermost

LEMMA LeavePathStep == GateInv /\ LeavePath /\ UNCHANGED auth => GateInv'
<1> SUFFICES ASSUME GateInv, LeavePath, UNCHANGED auth PROVE GateInv'
  OBVIOUS
<1> USE DEF GateInv
<1>1. /\ frames' = Front(frames) /\ Inside("path") /\ frames # <<>> /\ ~Inside("gate")
      /\ UNCHANGED <<installed, snapshot>>
      /\ correlation' \in {0, 1}
  BY DEF LeavePath, Inside, GateTypeOK
<1>2. /\ Len(frames) \in Nat \ {0}
      /\ frames' \in Seq(Frame) /\ Len(frames') = Len(frames) - 1
      /\ \A j \in 1 .. Len(frames) - 1 : frames'[j] = frames[j]
      /\ FramesNest'
  BY <1>1, FramesPopped
<1>3. GateTypeOK'
  BY <1>1, <1>2 DEF GateTypeOK, Frame
<1>4. ASSUME NEW i \in 1 .. Len(frames'), Innermost(i)'
      PROVE  Stage(frames[i], snapshot)'
  <2>1. i \in 1 .. Len(frames) - 1
    BY <1>2
  <2>2. frames'[i] = frames[i] /\ Innermost(i)
    BY <1>1, <1>2, <1>4, <2>1 DEF Innermost, Inside, Top
  <2>3. frames[i].at = "masked" /\ Stage(frames[i], snapshot)
    BY <1>1, <2>1, <2>2, GateBelow DEF SnapshotIsInnermost, Innermost
  <2> QED
    BY <1>1, <2>2, <2>3 DEF Stage, ResolvedAs, MaskedAs
<1> QED
  BY <1>1, <1>2, <1>3, <1>4 DEF SnapshotIsInnermost

\* The gate that returns takes the snapshot with it.
LEMMA LeaveGateStep == GateInv /\ LeaveGate /\ UNCHANGED auth => GateInv'
<1> SUFFICES ASSUME GateInv, LeaveGate, UNCHANGED auth PROVE GateInv'
  OBVIOUS
<1> USE DEF GateInv
<1>1. /\ frames' = Front(frames) /\ frames # <<>> /\ snapshot' = NoSnapshot
      /\ UNCHANGED <<installed, correlation>>
  BY DEF LeaveGate, Inside, Cleared
<1>2. /\ Len(frames) \in Nat \ {0}
      /\ frames' \in Seq(Frame) /\ Len(frames') = Len(frames) - 1
      /\ \A j \in 1 .. Len(frames) - 1 : frames'[j] = frames[j]
      /\ FramesNest'
  BY <1>1, FramesPopped
<1>3. GateTypeOK'
  BY <1>1, <1>2, NoSnapshotType DEF GateTypeOK, Frame, SnapshotType
<1>4. ASSUME NEW i \in 1 .. Len(frames'), Innermost(i)'
      PROVE  Stage(frames[i], snapshot)'
  <2>1. i \in 1 .. Len(frames) - 1 /\ frames'[i] = frames[i] /\ frames[i].kind = "gate"
    BY <1>2, <1>4 DEF Innermost
  <2>2. frames[i].at = "masked" /\ frames[i].class \in frames[i].mask
    BY <2>1 DEF FramesNest
  <2> QED
    BY <1>1, <2>1, <2>2, NoSnapshotType DEF Stage
<1> QED
  BY <1>1, <1>2, <1>3, <1>4 DEF SnapshotIsInnermost

\* The rule's detour may record the rule; the gate below goes on or rejects.
LEMMA RuleReturnsStep ==
    ASSUME GateInv, NEW accepts \in BOOLEAN, RuleReturns(accepts), UNCHANGED auth
    PROVE  GateInv'
<1> USE DEF GateInv
<1> DEFINE n    == Len(frames)
           gate == frames[n - 1]
<1>0. PICK next : next = IF accepts THEN gate ELSE [gate EXCEPT !.at = "done"]
  OBVIOUS
<1>1. /\ Inside("rule")
      /\ frames' = Append(SubSeq(frames, 1, n - 2), next)
      /\ snapshot' = IF Records("rule") THEN [snapshot EXCEPT !.late = TRUE] ELSE snapshot
      /\ UNCHANGED <<installed, correlation>>
  BY <1>0 DEF RuleReturns
<1>2. frames \in Seq(Frame) /\ n \in Nat \ {0} /\ frames[n].kind = "rule"
  BY <1>1, InsideFrame DEF GateTypeOK, Frame
<1>3. frames # <<>> /\ n # 1
  BY <1>1, <1>2 DEF FramesNest, Inside
<1>4. n - 1 \in 1 .. n - 1 /\ n - 2 \in 0 .. n - 2 /\ n - 2 \in 0 .. n
  <2>1. \A k \in Nat \ {0, 1} : k - 1 \in 1 .. k - 1 /\ k - 2 \in 0 .. k - 2 /\ k - 2 \in 0 .. k
    OBVIOUS
  <2> QED
    BY <1>2, <1>3, <2>1
<1>5. gate.kind = "gate" /\ gate.at = "masked" /\ gate.class \in gate.mask
  BY <1>2, <1>4 DEF FramesNest
<1>6. gate \in Gate
  BY <1>2, <1>4, <1>5, ElementOfSeq, FrameKinds
<1>7. Innermost(n - 1)
  BY <1>2, <1>4, <1>5 DEF Innermost
<1>8. Stage(gate, snapshot)
  BY <1>2, <1>4, <1>7 DEF SnapshotIsInnermost
<1> HIDE DEF gate
<1>9. /\ next \in Gate /\ next.kind = "gate" /\ next.class = gate.class
      /\ next.mask = gate.mask /\ next.readable = gate.readable /\ next.result = gate.result
      /\ next.at \in {"masked", "done"}
  BY <1>0, <1>5, <1>6 DEF Gate
<1>10. /\ SubSeq(frames, 1, n - 2) \in Seq(Frame)
       /\ Len(SubSeq(frames, 1, n - 2)) = n - 2
       /\ \A j \in 1 .. n - 2 : SubSeq(frames, 1, n - 2)[j] = frames[j]
  BY <1>4, FramesPrefix
<1>11. next \in Frame
  BY <1>9 DEF Frame
<1>12. /\ frames' \in Seq(Frame) /\ Len(frames') = n - 2 + 1
       /\ frames'[n - 2 + 1] = next
       /\ \A j \in 1 .. n - 2 : frames'[j] = frames[j]
  BY <1>1, <1>10, <1>11, AppendProperties
<1>13. /\ Len(frames') = n - 1 /\ frames'[n - 1] = next
  BY <1>2, <1>12
<1>14. /\ snapshot' \in SnapshotType
       /\ snapshot'.active = snapshot.active /\ snapshot'.resolved = snapshot.resolved
       /\ snapshot'.class = snapshot.class /\ snapshot'.masked = snapshot.masked
       /\ snapshot'.mask = snapshot.mask
       /\ snapshot'.active \/ snapshot' = NoSnapshot
  BY <1>1 DEF GateTypeOK, SnapshotType, SnapshotIsInnermost, Records
<1>15. GateTypeOK'
  BY <1>1, <1>12, <1>14 DEF GateTypeOK, Frame, SnapshotType
<1>16. FramesNest'
  <2>1. frames'[1].kind # "rule"
    BY <1>2, <1>3, <1>4, <1>9, <1>12, <1>13 DEF FramesNest
  <2>2. ASSUME NEW i \in 1 .. n - 2
        PROVE  /\ frames'[i].kind = "gate" <=> frames'[i + 1].kind = "rule"
               /\ frames'[i].kind = "gate" =>
                     frames'[i].at = "masked" /\ frames'[i].class \in frames'[i].mask
    <3>1. frames'[i] = frames[i] /\ frames'[i + 1].kind = frames[i + 1].kind
      BY <1>2, <1>5, <1>9, <1>12, <1>13 DEF gate
    <3> QED
      BY <1>2, <3>1 DEF FramesNest
  <2> QED
    BY <1>2, <1>13, <2>1, <2>2 DEF FramesNest
<1>17. Stage(next, snapshot)'
  BY <1>1, <1>5, <1>8, <1>9, <1>14 DEF Stage, ResolvedAs, MaskedAs
<1>18. ASSUME NEW i \in 1 .. Len(frames'), Innermost(i)'
       PROVE  frames'[i] = next
  BY <1>2, <1>4, <1>9, <1>13, <1>18 DEF Innermost
<1> QED
  BY <1>1, <1>14, <1>15, <1>16, <1>17, <1>18 DEF SnapshotIsInnermost

LEMMA FastAcceptStep == GateInv /\ FastAccept /\ UNCHANGED auth => GateInv'
<1> SUFFICES ASSUME GateInv, FastAccept, UNCHANGED auth PROVE GateInv'
  OBVIOUS
<1>1. PICK gate : gate = [Top EXCEPT !.at = "done", !.result = TRUE]
  OBVIOUS
<1>4. Inside("gate") /\ frames' = WithTop(gate) /\ UNCHANGED <<installed, snapshot, correlation>>
  BY <1>1 DEF FastAccept
<1>2. gate \in Gate /\ gate.at = "done" /\ gate.result
  BY <1>1, <1>4, InsideFrame DEF GateInv, Gate
<1>3. Stage(gate, snapshot)'
  BY <1>2 DEF Stage
<1> QED
  BY <1>2, <1>3, <1>4, TopStep DEF GateInv, GateTypeOK, SnapshotType, SnapshotIsInnermost

LEMMA AcceptStep == GateInv /\ Accept /\ UNCHANGED auth => GateInv'
<1> SUFFICES ASSUME GateInv, Accept, UNCHANGED auth PROVE GateInv'
  OBVIOUS
<1>1. PICK gate : gate = [Top EXCEPT !.at = "done", !.result = TRUE]
  OBVIOUS
<1>4. Inside("gate") /\ frames' = WithTop(gate) /\ UNCHANGED <<installed, snapshot, correlation>>
  BY <1>1 DEF Accept
<1>2. gate \in Gate /\ gate.at = "done" /\ gate.result
  BY <1>1, <1>4, InsideFrame DEF GateInv, Gate
<1>3. Stage(gate, snapshot)'
  BY <1>2 DEF Stage
<1> QED
  BY <1>2, <1>3, <1>4, TopStep DEF GateInv, GateTypeOK, SnapshotType, SnapshotIsInnermost

LEMMA ResolveClassStep == GateInv /\ ResolveClass /\ UNCHANGED auth => GateInv'
<1> SUFFICES ASSUME GateInv, ResolveClass, UNCHANGED auth PROVE GateInv'
  OBVIOUS
<1>0. PICK gate : gate = [Top EXCEPT !.at = "resolved"]
  OBVIOUS
<1> DEFINE seen == [snapshot EXCEPT !.resolved = TRUE,
                                    !.class = IF Top.readable THEN Top.class ELSE NoClass]
<1>1. /\ Inside("gate") /\ Top.at = "entered" /\ frames' = WithTop(gate)
      /\ snapshot' = IF Records("resolver") THEN seen ELSE snapshot
      /\ UNCHANGED <<installed, correlation>>
  BY <1>0 DEF ResolveClass
<1>2. Top \in Gate /\ Stage(Top, snapshot)
  BY <1>1, InsideFrame, TopStaged DEF GateInv
<1>3. /\ gate \in Gate /\ gate.at = "resolved" /\ gate.class = Top.class
      /\ gate.readable = Top.readable
  BY <1>0, <1>2 DEF Gate
<1>4. snapshot = [NoSnapshot EXCEPT !.active = TRUE, !.correlation = correlation]
  BY <1>1, <1>2 DEF Stage
<1>5. /\ snapshot.active /\ snapshot.correlation = correlation /\ ~snapshot.resolved
      /\ ~snapshot.late /\ ~snapshot.masked /\ snapshot.class = NoClass
  BY <1>4 DEF NoSnapshot
<1>6. snapshot \in SnapshotType /\ Top.class \in AnyClass /\ NoClass \in AnyClass
  BY <1>2 DEF GateInv, GateTypeOK, SnapshotType, Gate, AnyClass
<1>7. /\ seen \in SnapshotType /\ seen.active /\ seen.correlation = correlation
      /\ seen.resolved = TRUE /\ ~seen.late /\ ~seen.masked
      /\ seen.class = IF Top.readable THEN Top.class ELSE NoClass
  BY <1>5, <1>6 DEF SnapshotType
<1> HIDE DEF seen
<1>8. Records("resolver") <=> "resolver" \in installed
  BY <1>5 DEF Records
<1>9. snapshot.resolved = FALSE
  BY <1>5, <1>6 DEF SnapshotType
<1>11. /\ snapshot'.active /\ snapshot'.correlation = correlation'
       /\ ~snapshot'.late /\ ~snapshot'.masked
       /\ snapshot'.resolved = ("resolver" \in installed')
       /\ snapshot'.class = IF snapshot'.resolved /\ gate.readable THEN gate.class ELSE NoClass
  <2>1. CASE Records("resolver")
    BY <1>1, <1>3, <1>7, <1>8, <2>1
  <2>2. CASE ~Records("resolver")
    <3>1. snapshot' = snapshot /\ "resolver" \notin installed'
      BY <1>1, <1>8, <2>2
    <3>2. snapshot'.resolved = FALSE /\ snapshot'.class = NoClass
      BY <1>5, <1>9, <3>1
    <3>3. snapshot'.resolved = ("resolver" \in installed')
      <4>1. ("resolver" \in installed') = FALSE
        BY <3>1
      <4> QED
        BY <3>2, <4>1
    <3> QED
      BY <1>1, <1>5, <3>1, <3>2, <3>3
  <2> QED
    BY <2>1, <2>2
<1>10. Stage(gate, snapshot)'
  BY <1>3, <1>11 DEF Stage, ResolvedAs
<1> QED
  BY <1>1, <1>3, <1>5, <1>6, <1>7, <1>10, TopStep DEF GateInv

LEMMA GetAssignedMaskStep ==
    ASSUME GateInv, NEW mask \in SpellMasks, GetAssignedMask(mask), UNCHANGED auth
    PROVE  GateInv'
<1>0. PICK gate : gate = [Top EXCEPT !.at = IF Top.class \in mask THEN "masked" ELSE "done",
                                    !.mask = mask]
  OBVIOUS
<1> DEFINE seen == [snapshot EXCEPT !.masked = TRUE, !.mask = mask]
<1>1. /\ Inside("gate") /\ Top.at = "resolved" /\ frames' = WithTop(gate)
      /\ snapshot' = IF Records("getter") THEN seen ELSE snapshot
      /\ UNCHANGED <<installed, correlation>>
  BY <1>0 DEF GetAssignedMask
<1>2. Top \in Gate /\ Stage(Top, snapshot)
  BY <1>1, InsideFrame, TopStaged DEF GateInv
<1>3. /\ gate \in Gate /\ gate.class = Top.class /\ gate.readable = Top.readable
      /\ gate.mask = mask /\ gate.at = IF gate.class \in mask THEN "masked" ELSE "done"
  BY <1>0, <1>2, SpellAssumption DEF Gate
<1>4. /\ snapshot.active /\ snapshot.correlation = correlation
      /\ ~snapshot.late /\ ~snapshot.masked /\ ResolvedAs(Top, snapshot)
  BY <1>1, <1>2 DEF Stage
<1>5. snapshot \in SnapshotType /\ mask \in Masks
  BY SpellAssumption DEF GateInv, GateTypeOK, SnapshotType
<1>6. /\ seen \in SnapshotType /\ seen.active /\ seen.resolved = snapshot.resolved
      /\ seen.class = snapshot.class
      /\ seen.masked = TRUE /\ seen.mask = mask /\ ~seen.late
  BY <1>4, <1>5 DEF SnapshotType
<1> HIDE DEF seen
<1>7. Records("getter") <=> "getter" \in installed
  BY <1>4 DEF Records
<1>8. snapshot.masked = FALSE
  BY <1>4, <1>5 DEF SnapshotType
<1>10. /\ snapshot'.active /\ ~snapshot'.late
       /\ snapshot'.resolved = snapshot.resolved /\ snapshot'.class = snapshot.class
       /\ snapshot'.masked = ("getter" \in installed')
       /\ snapshot'.masked => snapshot'.mask = gate.mask
  <2>1. CASE Records("getter")
    BY <1>1, <1>3, <1>6, <1>7, <2>1
  <2>2. CASE ~Records("getter")
    <3>1. snapshot' = snapshot /\ "getter" \notin installed'
      BY <1>1, <1>7, <2>2
    <3>2. snapshot'.masked = FALSE
      BY <1>8, <3>1
    <3>3. snapshot'.masked = ("getter" \in installed')
      <4>1. ("getter" \in installed') = FALSE
        BY <3>1
      <4> QED
        BY <3>2, <4>1
    <3> QED
      BY <1>4, <3>1, <3>2, <3>3
  <2> QED
    BY <2>1, <2>2
<1>11. ResolvedAs(gate, snapshot)'
  BY <1>1, <1>3, <1>4, <1>10 DEF ResolvedAs
<1>12. MaskedAs(gate, snapshot)'
  BY <1>10 DEF MaskedAs
<1>9. Stage(gate, snapshot)'
  BY <1>3, <1>10, <1>11, <1>12 DEF Stage
<1> QED
  BY <1>1, <1>3, <1>4, <1>5, <1>6, <1>9, TopStep DEF GateInv

LEMMA InitGateInv == auth = {} /\ GateInit => GateInv
<1> SUFFICES ASSUME auth = {}, GateInit PROVE GateInv
  OBVIOUS
<1>1. frames \in Seq(Frame) /\ Len(frames) = 0
  BY EmptySeq DEF GateInit
<1>2. GateTypeOK
  BY <1>1, NoSnapshotType DEF GateInit, GateTypeOK, Frame, SnapshotType
<1> QED
  BY <1>1, <1>2 DEF GateInit, GateInv, FramesNest, SnapshotIsInnermost, Masks

LEMMA NextGateInv == GateInv /\ [GateNext]_<<auth, gateVars>> => GateInv'
<1> SUFFICES ASSUME GateInv, [GateNext]_<<auth, gateVars>> PROVE GateInv'
  OBVIOUS
<1>1. ASSUME auth' \in Masks, UNCHANGED gateVars
      PROVE  GateInv'
  BY <1>1 DEF gateVars, GateInv, GateTypeOK, FramesNest, SnapshotIsInnermost, Innermost, Stage,
     ResolvedAs, MaskedAs
<1>2. ASSUME NEW mask \in ReceivedMasks, MaskChanges(mask)
      PROVE  GateInv'
  BY <1>1, <1>2, AssignedMaskAssumption DEF MaskChanges
<1>3. CASE GateCalls /\ UNCHANGED auth
  BY <1>3, EnterPathStep, LeavePathStep, EnterGateStep, FastAcceptStep, ResolveClassStep,
     GetAssignedMaskStep, CallRuleStep, RuleReturnsStep, AcceptStep, LeaveGateStep
     DEF GateCalls
<1>4. CASE UNCHANGED <<auth, gateVars>>
  BY <1>1, <1>4 DEF GateInv
<1> QED
  BY <1>2, <1>3, <1>4 DEF GateNext

\* The snapshot is that of the innermost gate in progress, however paths, gates and
\* rules nest (StartSpellScribePrecheckGateHook).
THEOREM GateInvariant == GateSpec => []GateInv
<1>1. auth = {} /\ GateInit => GateInv
  BY InitGateInv
<1>2. GateInv /\ [GateNext]_<<auth, gateVars>> => GateInv'
  BY NextGateInv
<1> QED
  BY <1>1, <1>2, PTL DEF GateSpec

\* The spell gate's part of the state stays in its range, through every nesting of
\* the gate, the paths and the rules.
THEOREM GateTypeCorrect == GateSpec => []GateTypeOK
<1>1. GateInv => GateTypeOK
  BY DEF GateInv
<1> QED
  BY <1>1, GateInvariant, PTL

\* What the override reads of a gate that has recorded anything.
LEMMA CapturedAtDone ==
    ASSUME GateInv, Inside("gate"), Top.at = "done", ~Top.result,
           NEW seen, seen = Captured(Top.class, Top.readable)
    PROVE  /\ Top.class \in Top.mask \/ (snapshot.active /\ ~seen.late)
           /\ ~snapshot.active => ~seen.masked
           /\ snapshot.active =>
                 /\ seen.class = IF Top.readable THEN Top.class ELSE NoClass
                 /\ seen.masked <=> "getter" \in installed
                 /\ seen.masked => seen.mask = Top.mask
<1>1. Stage(Top, snapshot)
  BY TopStaged
<1>2. /\ Top.class \in Top.mask \/ (snapshot.active /\ ~snapshot.late)
      /\ snapshot.active => ResolvedAs(Top, snapshot) /\ MaskedAs(Top, snapshot)
  BY <1>1 DEF Stage
<1>3. snapshot.active \/ snapshot = NoSnapshot
  BY DEF GateInv, SnapshotIsInnermost
<1>4. CASE ~snapshot.active
  BY <1>2, <1>3, <1>4 DEF Captured, NoSnapshot
<1>5. CASE snapshot.active
  <2>1. snapshot \in SnapshotType
    BY DEF GateInv, GateTypeOK, SnapshotType
  <2>2. /\ seen.late = snapshot.late /\ seen.masked = snapshot.masked
        /\ seen.mask = snapshot.mask
        /\ seen.class = IF snapshot.resolved \/ ~Top.readable THEN snapshot.class ELSE Top.class
    BY <1>5, <2>1 DEF Captured, SnapshotType
  <2>3. /\ snapshot.class = IF snapshot.resolved /\ Top.readable THEN Top.class ELSE NoClass
        /\ snapshot.masked <=> "getter" \in installed
        /\ snapshot.masked => snapshot.mask = Top.mask
    BY <1>2, <1>5 DEF ResolvedAs, MaskedAs
  <2> QED
    BY <1>2, <1>5, <2>2, <2>3
<1> QED
  BY <1>4, <1>5

LEMMA OverrideFromGateInv == GateInv => OverrideIsForOwnClassReject
<1> SUFFICES ASSUME GateInv, Inside("gate"), Top.at = "done"
             PROVE  Overridden <=>
                        /\ ~Top.result
                        /\ {"usability", "getter"} \subseteq installed
                        /\ Top.known
                        /\ Top.readable /\ IsPlayableClassId(Top.class)
                        /\ Top.class \notin Top.mask
                        /\ auth \cap Top.mask # {}
  BY DEF OverrideIsForOwnClassReject
<1>1. PICK seen : seen = Captured(Top.class, Top.readable)
  OBVIOUS
<1>2. Overridden <=> Overrides(Top.known, Top.result, seen)
  BY <1>1 DEF Overridden
<1>3. CASE Top.result
  BY <1>2, <1>3 DEF Overrides
<1>4. CASE ~Top.result
  <2>1. /\ Top.class \in Top.mask \/ (snapshot.active /\ ~seen.late)
        /\ ~snapshot.active => ~seen.masked
        /\ snapshot.active =>
              /\ seen.class = IF Top.readable THEN Top.class ELSE NoClass
              /\ seen.masked <=> "getter" \in installed
              /\ seen.masked => seen.mask = Top.mask
    BY <1>1, <1>4, CapturedAtDone
  <2>2. ~IsPlayableClassId(NoClass)
    BY ClassAssumption DEF IsPlayableClassId
  <2>3. CASE ~snapshot.active
    BY <1>2, <2>1, <2>3 DEF Overrides
  <2>4. CASE snapshot.active
    BY <1>2, <1>4, <2>1, <2>2, <2>4 DEF Overrides
  <2> QED
    BY <2>3, <2>4
<1> QED
  BY <1>3, <1>4

\* The gate is overridden exactly when it itself rejected the character's own
\* playable class and an assigned class is in the mask it read, however gates,
\* rules and paths nest and whichever detours are missing.
THEOREM OverridesOwnReject == GateSpec => []OverrideIsForOwnClassReject
BY GateInvariant, OverrideFromGateInv, PTL

\* The level a character needs for a spell: the lowest of its assigned classes that
\* have the spell.
LEMMA LowestOfOwners ==
    ASSUME IsPlayableClassMask(auth), NEW mask, auth \cap mask # {}, NEW other,
           NEW levels \in LevelTables,
           \A c \in PlayableClasses : IsValidRequiredLevel(levels[c]) <=> c \in mask,
           NEW level, level = SelectLowestValidRequiredLevel(auth, levels, other)
    PROVE  /\ \E c \in auth : HasClass(mask, c) /\ level = levels[c]
           /\ \A c \in auth : HasClass(mask, c) => level <= levels[c]
<1> DEFINE owners == {c \in auth : HasClass(mask, c)}
           valid  == {levels[class] : class \in owners}
<1>1. levels \in [PlayableClasses -> 0 .. Unusable] /\ Unusable \in Nat
  BY SpellAssumption
<1>2. owners = {c \in PlayableClasses : HasClass(auth, c) /\ IsValidRequiredLevel(levels[c])}
  BY DEF HasClass, IsPlayableClassId, IsPlayableClassMask
<1>3. owners \subseteq PlayableClasses /\ owners # {}
  BY DEF HasClass, IsPlayableClassId, IsPlayableClassMask
<1>4. valid \subseteq Nat /\ valid # {}
  BY <1>1, <1>3
<1>5. level = Min(valid)
  BY <1>2, <1>4 DEF SelectLowestValidRequiredLevel
<1>6. \A c \in owners : levels[c] \in valid
  OBVIOUS
<1> HIDE DEF valid
<1>7. level \in valid /\ \A n \in valid : level <= n
  BY <1>4, <1>5, MinOfNats
<1> QED
  BY <1>6, <1>7 DEF valid

LEMMA LevelFromGateInv == GateInv => LevelForOverriddenSpell
<1> SUFFICES ASSUME GateInv, Inside("gate"), Top.at = "done", Overridden,
                    IsPlayableClassMask(auth)
             PROVE  LevelForOverriddenSpell
  BY DEF LevelForOverriddenSpell
<1>1. auth \cap Top.mask # {}
  BY OverrideFromGateInv DEF OverrideIsForOwnClassReject
<1>2. ASSUME NEW levels \in LevelTables,
             {c \in PlayableClasses : IsValidRequiredLevel(levels[c])}
                 = Top.mask \cap PlayableClasses,
             NEW owners, owners = {c \in auth : HasClass(Top.mask, c)},
             NEW level,
             level = SelectLowestValidRequiredLevel(auth, levels, levels[Top.class])
      PROVE  /\ level \in {levels[c] : c \in owners}
             /\ \A c \in owners : level <= levels[c]
  <2>1. PICK mask, other : mask = Top.mask /\ other = levels[Top.class]
    OBVIOUS
  <2>2. /\ \A c \in PlayableClasses : IsValidRequiredLevel(levels[c]) <=> c \in mask
        /\ level = SelectLowestValidRequiredLevel(auth, levels, other)
        /\ auth \cap mask # {}
    BY <1>1, <1>2, <2>1
  <2>3. /\ \E c \in auth : HasClass(mask, c) /\ level = levels[c]
        /\ \A c \in auth : HasClass(mask, c) => level <= levels[c]
    BY <2>2, LowestOfOwners
  <2> QED
    BY <1>2, <2>1, <2>3
<1> QED
  BY <1>2 DEF LevelForOverriddenSpell

\* A spell the gate is made to accept has a level, the lowest an assigned class
\* needs it at: the gate's hook and the level's agree on who can use a spell.
THEOREM LevelsOfOverridden == GateSpec => []LevelForOverriddenSpell
BY GateInvariant, LevelFromGateInv, PTL

------------------------------------------------------------------------------
(* The hands: what is pending and what the cache shows *)


\* What is pending when a click's move goes out is that click's item, if its
\* kind is known: an earlier click may have left something pending for the
\* same hand, but then this one has no item, or the last check replaced it.
PendingIsClick ==
    click.at = "send" /\ click.item # NoItem /\ Pending(click.slot)
        => pendingMove.kind = Item[click.item].kind

HandInv == HandTypeOK /\ PendingIsClick /\ CacheShowsHands

------------------------------------------------------------------------------
(* The hands: types *)

LEMMA HandConstants ==
    /\ NoItem \notin DOMAIN Item
    /\ NoItem \in ItemOrNone
    /\ \A item \in ItemOrNone : item # NoItem => item \in DOMAIN Item
    /\ \A item \in DOMAIN Item : item \in ItemOrNone /\ Item[item].kind \in Kinds
BY HandAssumption DEF ItemOrNone

\* A click in progress names a hand and an item or none.
LEMMA ClickTyped ==
    ASSUME HandTypeOK, click.at # "none"
    PROVE  /\ click \in [slot : Hands, item : ItemOrNone,
                         at : {"prep", "gateB", "dispatch", "send"}]
           /\ click.slot \in Hands
           /\ click.item \in ItemOrNone
BY DEF HandTypeOK, NoClick

\* What a check remembers is well formed, and is the click's own item when the
\* check let it through.
LEMMA RememberedTyped ==
    ASSUME HandTypeOK, click.at # "none", NEW result \in BOOLEAN, NEW sight
    PROVE  /\ Remembered(result, sight) \in
                  [slot : Hands, known : BOOLEAN, kind : Kinds] \cup {NoMove}
           /\ click.item # NoItem /\ Remembered(result, sight).slot = click.slot
                /\ Remembered(result, sight).known
                => Remembered(result, sight).kind = Item[click.item].kind
<1> DEFINE known == click.item # NoItem /\ sight.item
           move  == [slot  |-> click.slot, known |-> known,
                     kind |-> IF known THEN Item[click.item].kind ELSE "other"]
<1>1. click.slot \in Hands /\ click.item \in ItemOrNone
  BY ClickTyped
<1>2. known \in BOOLEAN
  BY DEF known
<1>3. move \in [slot : Hands, known : BOOLEAN, kind : Kinds]
  BY <1>1, <1>2, HandConstants DEF move, known, Kinds
<1>4. NoMove.slot = "none" /\ "none" \notin Hands
  BY DEF NoMove, Hands
<1>5. \/ Remembered(result, sight) = NoMove
      \/ Remembered(result, sight) = move
      \/ /\ Remembered(result, sight) = pendingMove
         /\ click.item # NoItem => pendingMove.slot # click.slot
  BY DEF Remembered, HandPolicyActive, move, known
<1>6. move.known => move.kind = Item[click.item].kind
  BY DEF move
<1> HIDE DEF move
<1> QED
  BY <1>1, <1>3, <1>4, <1>5, <1>6 DEF HandTypeOK

------------------------------------------------------------------------------
(* The hands: the invariant *)

\* Nothing is remembered when the hooks are installed.
LEMMA InitHandInv == HandInit => HandInv
<1> SUFFICES ASSUME HandInit PROVE HandInv
  OBVIOUS
<1> USE DEF HandInit
<1>1. HandTypeOK
  BY DEF HandTypeOK
<1>2. PendingIsClick
  BY DEF PendingIsClick, NoClick
<1>3. CacheShowsHands
  BY DEF CacheShowsHands
<1> QED
  BY <1>1, <1>2, <1>3 DEF HandInv

\* Whatever a send moves, the memory stays well formed.
LEMMA SendTyped ==
    ASSUME HandTypeOK, NEW from, NEW to, NEW ok \in BOOLEAN,
           ObserveHandEquipmentMoveSend(from, to, ok)
    PROVE  /\ cached' \in [primary : {"unknown", "blocks", "free"},
                           secondary : {"unknown", "occupied", "free"}]
           /\ pendingMove' \in [slot : Hands, known : BOOLEAN, kind : Kinds] \cup {NoMove}
BY DEF HandTypeOK, ObserveHandEquipmentMoveSend, CachedAfter

\* The three checks of a click touch neither the hands nor what is remembered of
\* them, and only the last lets the move out.
LEMMA CheckStep ==
    ASSUME HandInv, NEW native \in BOOLEAN, NEW sight \in Sights,
           Prep(native, sight) \/ GateB(native, sight) \/ Dispatch(native, sight)
    PROVE  HandInv'
<1> USE DEF HandInv
<1> DEFINE result == native /\ ~Revoked(native, sight)
<1>1. click.at # "none" /\ result \in BOOLEAN
  BY DEF Prep, GateB, Dispatch
<1>2. \/ click' = NoClick
      \/ /\ click' \in [slot : Hands, item : ItemOrNone,
                        at : {"prep", "gateB", "dispatch", "send"}]
         /\ click'.slot = click.slot /\ click'.item = click.item
         /\ click'.at = "send" => Dispatch(native, sight)
  BY <1>1, ClickTyped DEF Prep, GateB, Dispatch, Goes
<1>3. pendingMove' \in {pendingMove, Remembered(result, sight)}
  BY DEF Prep, GateB, Dispatch
<1>4. HandTypeOK'
  <2>1. UNCHANGED <<worn, cached, unseen>>
    BY DEF Prep, GateB, Dispatch
  <2>2. pendingMove' \in [slot : Hands, known : BOOLEAN, kind : Kinds] \cup {NoMove}
    <3>1. HandTypeOK
      OBVIOUS
    <3>2. Remembered(result, sight) \in [slot : Hands, known : BOOLEAN, kind : Kinds] \cup {NoMove}
      <4> HIDE DEF result
      <4> QED
        BY <1>1, <3>1, RememberedTyped
    <3> QED
      BY <1>3, <3>1, <3>2 DEF HandTypeOK
  <2> QED
    BY <1>2, <2>1, <2>2 DEF HandTypeOK
<1>5. PendingIsClick'
  <2>1. SUFFICES ASSUME click'.at = "send", click'.item # NoItem, Pending(click.slot)'
                 PROVE  pendingMove'.kind = Item[click.item].kind
    BY <1>2 DEF PendingIsClick, NoClick, Pending
  <2>2. Dispatch(native, sight) /\ click'.item = click.item /\ click'.slot = click.slot
    BY <1>2, <2>1 DEF NoClick
  <2>3. pendingMove' = Remembered(result, sight)
    BY <2>2 DEF Dispatch
  <2> QED
    BY <1>1, <2>1, <2>2, <2>3, RememberedTyped DEF Pending
<1>6. CacheShowsHands'
  BY DEF Prep, GateB, Dispatch, CacheShowsHands, Blocked
<1> QED
  BY <1>4, <1>5, <1>6

\* The move of a click: the kind that is pending is the kind of what is now worn.
LEMMA SendMoveStep ==
    ASSUME HandInv, NEW ok \in BOOLEAN, SendMove(ok)
    PROVE  HandInv'
<1> USE DEF HandInv
<1>1. click.slot \in Hands /\ click.item \in ItemOrNone
  BY ClickTyped DEF SendMove
<1>2. HandTypeOK'
  BY <1>1, SendTyped DEF SendMove, HandTypeOK
<1>3. PendingIsClick'
  BY DEF SendMove, PendingIsClick, NoClick
<1>4. CacheShowsHands'
  <2>1. CASE ~ok
    BY <2>1 DEF SendMove, ObserveHandEquipmentMoveSend, CacheShowsHands, Blocked
  <2>2. CASE ok
    <3>1. cached' = CachedAfter("elsewhere", click.slot)
      BY <2>2 DEF SendMove, ObserveHandEquipmentMoveSend
    <3>2. CASE click.item = NoItem
      <4>1. worn' = worn /\ unseen' = unseen \cup {click.slot}
        BY <2>2, <3>2 DEF SendMove
      <4> QED
        BY <1>1, <3>1, <4>1 DEF CachedAfter, CacheShowsHands, Blocked, Hands
    <3>3. CASE click.item # NoItem
      <4>1. worn' = [worn EXCEPT ![click.slot] = click.item]
            /\ unseen' = unseen \ {click.slot}
        BY <2>2, <3>3 DEF SendMove
      <4>2. CASE click.slot = "secondary"
        <5>1. worn'["secondary"] = click.item /\ worn'["primary"] = worn["primary"]
          BY <1>1, <4>1, <4>2 DEF HandTypeOK, Hands
        <5>2. cached'.secondary = "occupied" /\ cached'.primary = cached.primary
          BY <3>1, <4>2 DEF CachedAfter
        <5> QED
          BY <3>3, <4>1, <4>2, <5>1, <5>2 DEF CacheShowsHands, Blocked
      <4>3. CASE click.slot = "primary"
        <5>1. worn'["primary"] = click.item /\ worn'["secondary"] = worn["secondary"]
          BY <1>1, <4>1, <4>3 DEF HandTypeOK, Hands
        <5>2. /\ cached'.secondary = cached.secondary
              /\ cached'.primary # "unknown" =>
                    /\ Pending("primary")
                    /\ cached'.primary = "blocks" <=> BlocksSecondaryWeapon(pendingMove.kind)
          BY <3>1, <4>3 DEF CachedAfter
        <5>3. Pending("primary") => pendingMove.kind = Item[click.item].kind
          BY <3>3, <4>3 DEF PendingIsClick, SendMove
        <5> QED
          BY <3>3, <4>1, <4>3, <5>1, <5>2, <5>3 DEF CacheShowsHands, Blocked
      <4> QED
        BY <1>1, <4>2, <4>3 DEF Hands
    <3> QED
      BY <3>2, <3>3
  <2> QED
    BY <2>1, <2>2
<1> QED
  BY <1>2, <1>3, <1>4

\* A hand that is emptied by a move the hooks see is remembered as free.
LEMMA TakeOffStep ==
    ASSUME HandInv, NEW slot \in Hands, NEW ok \in BOOLEAN, TakeOff(slot, ok)
    PROVE  HandInv'
<1> USE DEF HandInv
<1>1. HandTypeOK'
  BY HandConstants, SendTyped DEF TakeOff, HandTypeOK
<1>2. PendingIsClick'
  BY DEF TakeOff, PendingIsClick, NoClick
<1>3. CacheShowsHands'
  <2>1. CASE ~ok
    BY <2>1 DEF TakeOff, ObserveHandEquipmentMoveSend, CacheShowsHands, Blocked
  <2>2. CASE ok
    <3>1. cached' = CachedAfter(slot, "elsewhere")
      BY <2>2 DEF TakeOff, ObserveHandEquipmentMoveSend
    <3>2. worn' = [worn EXCEPT ![slot] = NoItem] /\ unseen' = unseen \ {slot}
      BY <2>2 DEF TakeOff
    <3>3. CASE slot = "primary"
      <4>1. worn'["primary"] = NoItem /\ worn'["secondary"] = worn["secondary"]
        BY <3>2, <3>3 DEF HandTypeOK, Hands
      <4>2. cached'.primary = "free" /\ cached'.secondary = cached.secondary
        BY <3>1, <3>3 DEF CachedAfter
      <4> QED
        BY <3>2, <3>3, <4>1, <4>2 DEF CacheShowsHands, Blocked
    <3>4. CASE slot = "secondary"
      <4>1. worn'["secondary"] = NoItem /\ worn'["primary"] = worn["primary"]
        BY <3>2, <3>4 DEF HandTypeOK, Hands
      <4>2. cached'.secondary = "free" /\ cached'.primary = cached.primary
        BY <3>1, <3>4 DEF CachedAfter
      <4> QED
        BY <3>2, <3>4, <4>1, <4>2 DEF CacheShowsHands, Blocked
    <3> QED
      BY <3>3, <3>4 DEF Hands
  <2> QED
    BY <2>1, <2>2
<1> QED
  BY <1>1, <1>2, <1>3

\* A move with no check before it leaves the primary hand unknown, unless an
\* abandoned click left a move pending, and then the hand counts as unseen.
LEMMA EquipClickStep ==
    ASSUME HandInv, NEW slot \in Hands, NEW item \in DOMAIN Item,
           NEW native \in BOOLEAN, NEW ok \in BOOLEAN, EquipClick(slot, item, native, ok)
    PROVE  HandInv'
<1> USE DEF HandInv
<1>0. item \in ItemOrNone /\ item # NoItem
  BY HandConstants
<1>1. HandTypeOK'
  BY <1>0, SendTyped DEF EquipClick, HandTypeOK
<1>2. PendingIsClick'
  BY DEF EquipClick, PendingIsClick, NoClick
<1>3. CacheShowsHands'
  <2>1. CASE ~ok
    BY <2>1 DEF EquipClick, ObserveHandEquipmentMoveSend, CacheShowsHands, Blocked
  <2>2. CASE ok
    <3>1. cached' = CachedAfter("elsewhere", slot)
      BY <2>2 DEF EquipClick, ObserveHandEquipmentMoveSend
    <3>2. /\ worn' = [worn EXCEPT ![slot] = item]
          /\ unseen' = IF slot = "primary" /\ Pending(slot)
                       THEN unseen \cup {slot} ELSE unseen \ {slot}
      BY <2>2 DEF EquipClick
    <3>3. CASE slot = "primary"
      <4>1. worn'["secondary"] = worn["secondary"]
        BY <3>2, <3>3 DEF HandTypeOK, Hands
      <4>2. cached'.secondary = cached.secondary
        BY <3>1, <3>3 DEF CachedAfter
      <4>3. "primary" \in unseen' \/ cached'.primary = "unknown"
        BY <3>1, <3>2, <3>3 DEF CachedAfter
      <4> QED
        BY <3>2, <3>3, <4>1, <4>2, <4>3 DEF CacheShowsHands
    <3>4. CASE slot = "secondary"
      <4>1. worn'["secondary"] = item /\ worn'["primary"] = worn["primary"]
        BY <3>2, <3>4 DEF HandTypeOK, Hands
      <4>2. cached'.secondary = "occupied" /\ cached'.primary = cached.primary
        BY <3>1, <3>4 DEF CachedAfter
      <4> QED
        BY <1>0, <3>2, <3>4, <4>1, <4>2 DEF CacheShowsHands, Blocked
    <3> QED
      BY <3>3, <3>4 DEF Hands
  <2> QED
    BY <2>1, <2>2
<1> QED
  BY <1>1, <1>2, <1>3

\* Every step keeps the invariant.
LEMMA NextHandInv == HandInv /\ [HandNext]_<<auth, handVars>> => HandInv'
<1> SUFFICES ASSUME HandInv, [HandNext]_<<auth, handVars>> PROVE HandInv'
  OBVIOUS
<1>1. ASSUME NEW slot \in Hands, NEW item \in ItemOrNone, ClickSlot(slot, item)
      PROVE  HandInv'
  BY <1>1 DEF ClickSlot, HandInv, HandTypeOK, PendingIsClick, CacheShowsHands, Blocked
<1>2. ASSUME NEW native \in BOOLEAN, NEW sight \in Sights,
             Prep(native, sight) \/ GateB(native, sight) \/ Dispatch(native, sight)
      PROVE  HandInv'
  BY <1>2, CheckStep
<1>3. ASSUME NEW ok \in BOOLEAN, SendMove(ok)
      PROVE  HandInv'
  BY <1>3, SendMoveStep
<1>4. ASSUME NEW slot \in Hands, NEW ok \in BOOLEAN, TakeOff(slot, ok)
      PROVE  HandInv'
  BY <1>4, TakeOffStep
<1>5. ASSUME NEW slot \in Hands, NEW item \in DOMAIN Item, NEW native \in BOOLEAN,
             NEW ok \in BOOLEAN, EquipClick(slot, item, native, ok)
      PROVE  HandInv'
  BY <1>5, EquipClickStep
<1>6. ASSUME NEW from \in Hands, NEW to \in Hands, SwapHands(from, to)
      PROVE  HandInv'
  <2> USE <1>6 DEF SwapHands, HandInv
  <2>1. HandTypeOK'
    BY SendTyped DEF HandTypeOK
  <2>2. PendingIsClick'
    BY DEF PendingIsClick, NoClick
  <2>3. CacheShowsHands'
    BY DEF CacheShowsHands, Hands
  <2> QED
    BY <2>1, <2>2, <2>3
<1>7. ASSUME NEW slot \in Hands, NEW item \in ItemOrNone, HandsChange(slot, item)
      PROVE  HandInv'
  <2> USE <1>7 DEF HandsChange, HandInv
  <2>1. HandTypeOK'
    BY DEF HandTypeOK
  <2>2. PendingIsClick'
    BY DEF PendingIsClick, NoClick
  <2>3. \A hand \in Hands \ {slot} : worn'[hand] = worn[hand]
    BY DEF HandTypeOK
  <2>4. CacheShowsHands'
    BY <2>3 DEF CacheShowsHands, Blocked, Hands
  <2> QED
    BY <2>1, <2>2, <2>4
<1>8. CASE UNCHANGED handVars
  BY <1>8 DEF handVars, HandInv, HandTypeOK, PendingIsClick, Pending, CacheShowsHands, Blocked
<1> QED
  BY <1>1, <1>2, <1>3, <1>4, <1>5, <1>6, <1>7, <1>8
     DEF HandNext, Clicking, OtherMoves, HandMaskChanges

\* What the hooks remember of the hands and of the move in progress is right in
\* every reachable state (ObserveHandEquipmentMoveSend,
\* RememberPendingHandEquipmentMoveState).
THEOREM HandInvariant == HandSpec => []HandInv
<1>1. HandInit => HandInv
  BY InitHandInv
<1>2. HandInv /\ [HandNext]_<<auth, handVars>> => HandInv'
  BY NextHandInv
<1> QED
  BY <1>1, <1>2, PTL DEF HandSpec

\* Every part of the state stays in its range.
THEOREM HandTypeCorrect == HandSpec => []HandTypeOK
BY HandInvariant, PTL DEF HandInv

\* What is remembered of a hand is what it holds, unless it changed unseen.
THEOREM CacheCorrect == HandSpec => []CacheShowsHands
BY HandInvariant, PTL DEF HandInv

------------------------------------------------------------------------------
(* The hands: answers *)

\* What the hooks take for the primary hand, remembered or seen in the animation,
\* is right while the hand has not changed unseen.
LEMMA CurrentPrimaryRight ==
    ASSUME HandInv, "primary" \notin unseen, NEW sight
    PROVE  /\ CurrentPrimary(sight) = "blocks" => Blocked
           /\ CurrentPrimary(sight) = "free" => ~Blocked
           /\ CurrentPrimary(sight) \in {"unknown", "blocks", "free"}
           /\ sight.animation \/ cached.primary # "unknown" =>
                 (Blocked => CurrentPrimary(sight) = "blocks")
BY DEF HandInv, HandTypeOK, CacheShowsHands, CurrentPrimary, Blocked

\* A conflict the hooks see is one, while the other hand has not changed unseen.
LEMMA SeenConflictIsConflict ==
    ASSUME HandInv, click.at # "none", Other(click.slot) \notin unseen,
           NEW sight, EvaluateHandEquipConflict(click.slot, click.item, sight)
    PROVE  Conflict
<1>1. click.slot \in Hands
  BY ClickTyped DEF HandInv
<1>2. CASE click.slot = "secondary"
  BY <1>2, CurrentPrimaryRight DEF Other, EvaluateHandEquipConflict, Conflict
<1>3. CASE click.slot = "primary"
  BY <1>3 DEF Other, EvaluateHandEquipConflict, Conflict, HandInv, CacheShowsHands
<1> QED
  BY <1>1, <1>2, <1>3 DEF Hands

\* An acceptance is only taken back for an item the other hand excludes.
LEMMA HandInvRevoked == HandInv => RevokedOnlyForConflict
<1> SUFFICES ASSUME HandInv, click # NoClick, Other(click.slot) \notin unseen,
                    NEW sight \in Sights, FALSE \in Answers(TRUE, sight)
             PROVE  Conflict
  BY DEF RevokedOnlyForConflict
<1>1. click.at \in {"prep", "dispatch"}
  BY DEF Answers
<1>2. Revoked(TRUE, sight)
  BY DEF Answers, PrepAnswer, DispatchAnswer
<1> QED
  BY <1>1, <1>2, SeenConflictIsConflict DEF Revoked

\* The client's own acceptances are only taken back for a real conflict (Prep and
\* Dispatch callsite hooks).
THEOREM RevocationsRight == HandSpec => []RevokedOnlyForConflict
BY HandInvariant, HandInvRevoked, PTL

\* A grant against the hand that the hooks can see is none: either the conflict was
\* evaluated, or the fallback of Prep was used and the primary hand is not blocking.
LEMMA HandInvGranted == HandInv => GrantedOnlyWithoutConflict
<1> SUFFICES ASSUME HandInv, click # NoClick, Other(click.slot) \notin unseen,
                    NEW sight \in Sights, TRUE \in Answers(FALSE, sight),
                    IF click.slot = "secondary" THEN cached.primary # "unknown" \/ sight.animation
                                                ELSE cached.secondary # "unknown"
             PROVE  ~Conflict
  BY DEF GrantedOnlyWithoutConflict
<1>1. click.at \in {"prep", "dispatch"}
  BY DEF Answers
<1>2. click.slot \in Hands
  BY <1>1, ClickTyped DEF HandInv
<1>3. CASE click.slot = "secondary"
  <2>1. Evaluated("secondary", sight) => CurrentPrimary(sight) # "unknown"
    BY DEF Evaluated
  <2>2. \/ HandConflictClear(click.slot, click.item, sight)
        \/ PrepFallback(sight)
    BY <1>3, <1>1 DEF Answers, PrepAnswer, DispatchAnswer, OffhandOverride, EquipmentOverride
  <2>3. CurrentPrimary(sight) # "blocks"
    BY <1>3, <2>1, <2>2
       DEF HandConflictClear, EvaluateHandEquipConflict, PrepFallback, Evaluated
  <2> QED
    BY <1>3, <2>3, CurrentPrimaryRight DEF Other, Conflict
<1>4. CASE click.slot = "primary"
  <2>1. EquipmentOverride(sight)
    BY <1>1, <1>4 DEF Answers, PrepAnswer, DispatchAnswer, OffhandOverride
  <2>2. \/ ~IsTwoHandedWeapon(click.item)
        \/ HandConflictClear(click.slot, click.item, sight)
    BY <1>4, <2>1 DEF EquipmentOverride
  <2>3. IsTwoHandedWeapon(click.item) => cached.secondary # "occupied"
    BY <1>4, <2>1, <2>2
       DEF EquipmentOverride, EquipmentEligible, HandConflictClear, EvaluateHandEquipConflict
  <2> QED
    BY <1>4, <2>3 DEF Other, Conflict, HandInv, CacheShowsHands
<1> QED
  BY <1>2, <1>3, <1>4 DEF Hands

\* A rejection is never turned into an acceptance against the other hand, when the
\* hooks can see that hand (OffhandOverride, EquipmentOverride and their fallback).
THEOREM GrantsRight == HandSpec => []GrantedOnlyWithoutConflict
BY HandInvariant, HandInvGranted, PTL


------------------------------------------------------------------------------
(* Combat abilities: what a synthesis selects *)

\* The spell ids without two of one group, where the best of each group considered
\* stands for it, and where none is missing unless the list is full.
Selections(considered) ==
    {ids \in Seq(SpellIds) :
        /\ Len(ids) <= Capacity
        /\ \A i \in 1 .. Len(ids) : ids[i] \in considered
        /\ \A i, j \in 1 .. Len(ids) :
              i # j => ids[i] # ids[j] /\ ~SameGroup(ids[i], ids[j])
        /\ \A i \in 1 .. Len(ids), x \in considered :
              SameGroup(x, ids[i]) => ~CandidateBetter(x, ids[i])
        /\ Len(ids) < Capacity =>
              \A x \in considered : \E i \in 1 .. Len(ids) : ids[i] = x \/ SameGroup(x, ids[i])}

LEMMA SpellTyped ==
    ASSUME NEW id \in SpellIds
    PROVE  /\ Spell[id].rank \in Int /\ Spell[id].group \in Int
           /\ Spell[id].category \in Categories /\ id \in Nat
<1>1. id \in 1 .. Len(Spell)
  BY DEF SpellIds
<1>2. Spell[id] \in [skill : BOOLEAN, category : Categories, costs : BOOLEAN,
                      deity : Nat, group : Int, subgroup : Int, rank : Int,
                      level : [PlayableClasses -> Nat]]
  BY <1>1, CombatAssumption, ElementOfSeq
<1> QED
  BY <1>1, <1>2

LEMMA SameGroupLaws ==
    ASSUME NEW a \in SpellIds, NEW b \in SpellIds, NEW c \in SpellIds
    PROVE  /\ SameGroup(a, b) => SameGroup(b, a)
           /\ SameGroup(a, b) /\ SameGroup(b, c) => SameGroup(a, c)
BY SpellTyped DEF SameGroup

\* A better candidate is no worse than what it replaces.
LEMMA BetterLaws ==
    ASSUME NEW a \in SpellIds, NEW b \in SpellIds, NEW c \in SpellIds
    PROVE  /\ ~CandidateBetter(a, a)
           /\ CandidateBetter(a, b) /\ CandidateBetter(b, c) => CandidateBetter(a, c)
<1>1. /\ Spell[a].rank \in Int /\ Spell[b].rank \in Int /\ Spell[c].rank \in Int
      /\ a \in Nat /\ b \in Nat /\ c \in Nat
  BY SpellTyped
<1> QED
  BY <1>1 DEF CandidateBetter

LEMMA WithCandidateSelects ==
    ASSUME NEW considered, considered \subseteq SpellIds, NEW ids \in Selections(considered),
           NEW id \in SpellIds
    PROVE  WithCandidate(ids, id) \in Selections(considered \cup {id})
<1> DEFINE rivals == {i \in DOMAIN ids : SameGroup(id, ids[i])}
<1>1. /\ ids \in Seq(SpellIds) /\ Len(ids) \in Nat /\ DOMAIN ids = 1 .. Len(ids)
      /\ Capacity \in Nat /\ Len(ids) <= Capacity
      /\ \A i \in 1 .. Len(ids) : ids[i] \in SpellIds
  BY LenProperties, ElementOfSeq, CombatAssumption DEF Selections
<1>2. Contains(ids, id) <=> \E i \in 1 .. Len(ids) : ids[i] = id
  BY <1>1 DEF Contains
<1>3. CASE rivals = {}
  <2>1. \A i \in 1 .. Len(ids) : ~SameGroup(id, ids[i])
    BY <1>1, <1>3
  <2>2. CASE Contains(ids, id) \/ Len(ids) >= Capacity
    <3>1. WithCandidate(ids, id) = ids
      BY <1>3, <2>2 DEF WithCandidate
    <3>2. ids \in Selections(considered \cup {id})
      BY <1>1, <1>2, <2>1, <2>2 DEF Selections
    <3> QED
      BY <3>1, <3>2
  <2>3. CASE ~Contains(ids, id) /\ Len(ids) < Capacity
    <3>1. PICK more : more = Append(ids, id)
      OBVIOUS
    <3>2. /\ more \in Seq(SpellIds) /\ Len(more) = Len(ids) + 1 /\ more[Len(ids) + 1] = id
          /\ \A i \in 1 .. Len(ids) : more[i] = ids[i]
      BY <1>1, <3>1, AppendProperties
    <3>3. WithCandidate(ids, id) = more
      <4>1. ~(Len(ids) >= Capacity)
        BY <1>1, <2>3
      <4> QED
        BY <1>3, <2>3, <3>1, <4>1 DEF WithCandidate
    <3>4. ASSUME NEW x \in considered
          PROVE  /\ ~SameGroup(x, id)
                 /\ \E i \in 1 .. Len(ids) : ids[i] = x \/ SameGroup(x, ids[i])
      <4>1. PICK i \in 1 .. Len(ids) : ids[i] = x \/ SameGroup(x, ids[i])
        BY <2>3 DEF Selections
      <4>2. ~SameGroup(x, id)
        BY <1>1, <2>1, <4>1, SameGroupLaws
      <4> QED
        BY <4>1, <4>2
    <3>5. \A i, j \in 1 .. Len(more) :
              i # j => more[i] # more[j] /\ ~SameGroup(more[i], more[j])
      <4>1. \A i \in 1 .. Len(ids) :
                ids[i] # id /\ ~SameGroup(id, ids[i]) /\ ~SameGroup(ids[i], id)
        BY <1>1, <1>2, <2>1, <2>3, SameGroupLaws
      <4> QED
        BY <1>1, <3>2, <4>1 DEF Selections
    <3>6. \A i \in 1 .. Len(more), x \in considered \cup {id} :
              SameGroup(x, more[i]) => ~CandidateBetter(x, more[i])
      BY <1>1, <2>1, <3>2, <3>4, BetterLaws DEF Selections
    <3>7. \A x \in considered \cup {id} :
              \E i \in 1 .. Len(more) : more[i] = x \/ SameGroup(x, more[i])
      <4>1. ASSUME NEW x \in considered
            PROVE  \E i \in 1 .. Len(more) : more[i] = x \/ SameGroup(x, more[i])
        <5>1. PICK i \in 1 .. Len(ids) : ids[i] = x \/ SameGroup(x, ids[i])
          BY <3>4
        <5>2. i \in 1 .. Len(more) /\ more[i] = ids[i]
          BY <1>1, <3>2
        <5> QED
          BY <5>1, <5>2
      <4>2. Len(ids) + 1 \in 1 .. Len(more)
        BY <1>1, <3>2
      <4> QED
        BY <3>2, <4>1, <4>2
    <3>8. \A i \in 1 .. Len(more) : more[i] \in considered \cup {id}
      BY <1>1, <3>2 DEF Selections
    <3>9. Len(more) <= Capacity
      BY <1>1, <2>3, <3>2
    <3>10. more \in Selections(considered \cup {id})
      BY <3>2, <3>5, <3>6, <3>7, <3>8, <3>9 DEF Selections
    <3> QED
      BY <3>3, <3>10
  <2> QED
    BY <1>1, <2>2, <2>3
<1>4. CASE rivals # {}
  <2>1. PICK rival \in 1 .. Len(ids) : SameGroup(id, ids[rival])
    BY <1>1, <1>4
  <2>2. \A i \in 1 .. Len(ids) : SameGroup(id, ids[i]) <=> i = rival
    BY <1>1, <2>1, SameGroupLaws DEF Selections
  <2>3. PICK next : next = [i \in DOMAIN ids |->
                              IF i \in rivals /\ CandidateBetter(id, ids[i]) THEN id ELSE ids[i]]
    OBVIOUS
  <2>4. WithCandidate(ids, id) = next
    BY <1>4, <2>3 DEF WithCandidate
  <2> HIDE DEF rivals
  <2>5. CASE ~CandidateBetter(id, ids[rival])
    <3>1. next = ids
      BY <1>1, <2>2, <2>3, <2>5 DEF rivals
    <3>2. ids \in Selections(considered \cup {id})
      BY <1>1, <2>1, <2>2, <2>5 DEF Selections
    <3> QED
      BY <2>4, <3>1, <3>2
  <2>6. CASE CandidateBetter(id, ids[rival])
    <3>1. /\ next = [ids EXCEPT ![rival] = id]
      BY <1>1, <2>1, <2>2, <2>3, <2>6 DEF rivals
    <3>2. /\ next \in Seq(SpellIds) /\ Len(next) = Len(ids) /\ next[rival] = id
          /\ \A i \in 1 .. Len(ids) : i # rival => next[i] = ids[i]
      BY <1>1, <3>1, ExceptSeq
    <3>3. ASSUME NEW x \in SpellIds
          PROVE  SameGroup(x, id) <=> SameGroup(x, ids[rival])
      BY <1>1, <2>1, SameGroupLaws
    <3>4. \A i \in 1 .. Len(ids) : i # rival =>
              /\ ids[i] # id /\ ~SameGroup(id, ids[i]) /\ ~SameGroup(ids[i], id)
      <4>1. SameGroup(id, id)
        BY <1>1, <2>1, SameGroupLaws
      <4> QED
        BY <1>1, <2>2, <4>1, SameGroupLaws
    <3>5. \A i, j \in 1 .. Len(next) :
              i # j => next[i] # next[j] /\ ~SameGroup(next[i], next[j])
      BY <1>1, <3>2, <3>4 DEF Selections
    <3>6. \A x \in considered : SameGroup(x, id) => ~CandidateBetter(x, id)
      BY <1>1, <2>6, <3>3, BetterLaws DEF Selections
    <3>7. \A i \in 1 .. Len(next), x \in considered \cup {id} :
              SameGroup(x, next[i]) => ~CandidateBetter(x, next[i])
      BY <1>1, <3>2, <3>4, <3>6, BetterLaws DEF Selections
    <3>8. Len(next) < Capacity => \A x \in considered \cup {id} :
              \E i \in 1 .. Len(next) : next[i] = x \/ SameGroup(x, next[i])
      <4>1. ASSUME Len(ids) < Capacity, NEW x \in considered
            PROVE  \E i \in 1 .. Len(next) : next[i] = x \/ SameGroup(x, next[i])
        <5>1. PICK i \in 1 .. Len(ids) : ids[i] = x \/ SameGroup(x, ids[i])
          BY <4>1 DEF Selections
        <5>2. CASE i # rival
          BY <3>2, <5>1, <5>2
        <5>3. CASE i = rival
          <6>1. SameGroup(x, id)
            BY <1>1, <2>1, <3>3, <5>1, <5>3, SameGroupLaws
          <6> QED
            BY <2>1, <3>2, <6>1
        <5> QED
          BY <5>2, <5>3
      <4> QED
        BY <2>1, <3>2, <4>1
    <3>9. \A i \in 1 .. Len(next) : next[i] \in considered \cup {id}
      BY <1>1, <3>2 DEF Selections
    <3>10. next \in Selections(considered \cup {id})
      BY <1>1, <3>2, <3>5, <3>7, <3>8, <3>9 DEF Selections
    <3> QED
      BY <2>4, <3>10
  <2> QED
    BY <2>5, <2>6
<1> QED
  BY <1>3, <1>4

LEMMA WithCandidateTyped ==
    ASSUME NEW ids \in Seq(SpellIds), NEW id \in SpellIds
    PROVE  WithCandidate(ids, id) \in Seq(SpellIds)
<1> DEFINE rivals == {i \in DOMAIN ids : SameGroup(id, ids[i])}
           next   == [i \in DOMAIN ids |->
                         IF i \in rivals /\ CandidateBetter(id, ids[i]) THEN id ELSE ids[i]]
<1>1. /\ Len(ids) \in Nat /\ DOMAIN ids = 1 .. Len(ids)
      /\ \A i \in 1 .. Len(ids) : ids[i] \in SpellIds
  BY LenProperties, ElementOfSeq
<1>2. next \in [1 .. Len(ids) -> SpellIds]
  BY <1>1
<1>3. next \in Seq(SpellIds) /\ Append(ids, id) \in Seq(SpellIds)
  BY <1>1, <1>2, AppendProperties
<1>4. WithCandidate(ids, id) \in {ids, next, Append(ids, id)}
  BY DEF WithCandidate
<1> QED
  BY <1>3, <1>4

\* The spells of a class join those of the classes before it.
LEMMA WithClassSelects ==
    ASSUME NEW considered, considered \subseteq SpellIds, NEW ids \in Selections(considered),
           NEW class, NEW who
    PROVE  WithClass(ids, class, who)
              \in Selections(considered \cup {id \in SpellIds : Eligible(id, class, who)})
<1> DEFINE n == Len(Spell)
           Step(list, id) == IF Eligible(id, class, who) THEN WithCandidate(list, id) ELSE list
           Is(f) == f = [id \in 0 .. n |-> IF id = 0 THEN ids ELSE Step(f[id - 1], id)]
           with  == CHOOSE f : Is(f)
           upTo  == [i \in 0 .. n |-> considered \cup {id \in 1 .. i : Eligible(id, class, who)}]
           D     == [i \in 0 .. n |-> Selections(upTo[i])]
           All   == Seq(SpellIds)
           step  == [i \in 1 .. n |-> [list \in All |-> Step(list, i)]]
<1>1. WithClass(ids, class, who) = with[n]
  BY DEF WithClass
<1>2. n \in Nat /\ SpellIds = 1 .. n
  BY CombatAssumption, LenProperties DEF SpellIds
<1>3. ids \in D[0] /\ ids \in All
  <2>1. upTo[0] = considered
    BY <1>2
  <2> QED
    BY <1>2, <2>1 DEF Selections
<1>4. ASSUME NEW i \in 1 .. n, NEW list \in D[i - 1]
      PROVE  Step(list, i) \in D[i]
  <2>1. /\ i - 1 \in 0 .. n /\ i \in 0 .. n /\ list \in Selections(upTo[i - 1])
        /\ upTo[i - 1] \subseteq SpellIds /\ i \in SpellIds
    <3> HIDE DEF n
    <3>1. i - 1 \in 0 .. n /\ i \in 0 .. n /\ i \in SpellIds
      BY <1>2
    <3>2. list \in Selections(upTo[i - 1])
      <4> HIDE DEF upTo
      <4> QED
        BY <1>4, <3>1
    <3>3. \A id \in 1 .. i - 1 : id \in SpellIds
      BY <1>2, <3>1
    <3>4. upTo[i - 1] \subseteq SpellIds
      BY <3>1, <3>3
    <3> QED
      BY <3>1, <3>2, <3>4
  <2>2. CASE Eligible(i, class, who)
    <3>1. upTo[i] = upTo[i - 1] \cup {i}
      BY <1>2, <2>1, <2>2
    <3> QED
      BY <2>1, <2>2, <3>1, WithCandidateSelects
  <2>3. CASE ~Eligible(i, class, who)
    <3>1. upTo[i] = upTo[i - 1]
      <4>1. \A id \in 1 .. i : Eligible(id, class, who) => id \in 1 .. i - 1
        BY <1>2, <2>3
      <4>2. \A id \in 1 .. i - 1 : id \in 1 .. i
        BY <1>2
      <4> QED
        BY <2>1, <4>1, <4>2
    <3> QED
      BY <2>1, <2>3, <3>1
  <2> QED
    BY <2>2, <2>3
<1>5. \A i \in 1 .. n, list \in All : Step(list, i) \in All
  BY <1>2, WithCandidateTyped
<1>6. upTo[n] = considered \cup {id \in SpellIds : Eligible(id, class, who)}
  BY <1>2
<1> HIDE DEF Step, n
<1>7. step \in [1 .. n -> [All -> All]] /\ \A i \in 1 .. n, list \in All : step[i][list] = Step(list, i)
  BY <1>5
<1> HIDE DEF step, All, D, upTo
<1>8. \E f : Is(f)
  <2>1. Runs(All, n, ids, step) # {}
    BY <1>2, <1>3, <1>7, RunExists
  <2>2. PICK f \in [0 .. n -> All] : f[0] = ids /\ \A i \in 1 .. n : f[i] = step[i][f[i - 1]]
    BY <2>1 DEF Runs
  <2>3. \A i \in 1 .. n : f[i] = Step(f[i - 1], i)
    BY <1>2, <1>7, <2>2
  <2> QED
    BY <1>2, <2>2, <2>3
<1>9. Is(with)
  BY <1>8
<1> HIDE DEF with
<1>10. with[0] = ids /\ \A i \in 1 .. n : with[i] = Step(with[i - 1], i)
  BY <1>2, <1>9
<1>11. \A i \in 0 .. n : with[i] \in D[i]
  BY <1>2, <1>3, <1>4, <1>10, AllStages
<1>12. with[n] \in D[n] /\ D[n] = Selections(upTo[n])
  BY <1>2, <1>11 DEF D
<1> QED
  BY <1>1, <1>6, <1>12

\* The whole selection is one of the spells that are eligible for any class in
\* order.
LEMMA SelectCandidatesSelects ==
    ASSUME NEW mask, mask # {}, IsPlayableClassMask(mask), NEW who
    PROVE  SelectCandidates(mask, who) \in Selections(EligibleFor(mask, who))
<1> DEFINE order == BuildAuthoritativeCombatAbilityClassOrder(mask, who.displayed)
           n     == Len(order)
           Step(list, i) == WithClass(list, order[i], who)
           Is(f) == f = [i \in 0 .. n |-> IF i = 0 THEN <<>> ELSE Step(f[i - 1], i)]
           selected == CHOOSE f : Is(f)
           upTo  == [i \in 0 .. n |-> {id \in SpellIds : \E j \in 1 .. i : Eligible(id, order[j], who)}]
           D     == [i \in 0 .. n |-> Selections(upTo[i])]
           All   == UNION {Selections(S) : S \in SUBSET SpellIds}
           step  == [i \in 1 .. n |-> [list \in All |-> Step(list, i)]]
<1>1. SelectCandidates(mask, who) = selected[n]
  BY DEF SelectCandidates
<1>2. /\ order \in Seq(PlayableClasses)
      /\ \A i \in 1 .. Len(order) : order[i] \in mask
      /\ \A c \in mask : \E i \in 1 .. Len(order) : order[i] = c
  BY AbilityClassOrder
<1>3. n \in Nat
  BY <1>2, LenProperties
<1> HIDE DEF order
<1>4. <<>> \in D[0] /\ <<>> \in All
  <2>1. upTo[0] = {}
    BY <1>3
  <2>2. <<>> \in Seq(SpellIds) /\ Len(<<>>) = 0 /\ Capacity \in Nat
    BY EmptySeq, CombatAssumption
  <2>3. <<>> \in Selections({})
    BY <2>2 DEF Selections
  <2>4. {} \in SUBSET SpellIds
    OBVIOUS
  <2>5. <<>> \in All
    <3>1. Selections({}) \in {Selections(S) : S \in SUBSET SpellIds}
      BY <2>4
    <3> QED
      BY <2>3, <3>1
  <2>6. <<>> \in D[0]
    <3>1. 0 \in 0 .. n
      BY <1>3
    <3> HIDE DEF n, upTo
    <3>2. D[0] = Selections(upTo[0])
      BY <3>1
    <3> QED
      BY <2>1, <2>3, <3>2
  <2> HIDE DEF All, D
  <2> QED
    BY <2>5, <2>6
<1>5. ASSUME NEW i \in 1 .. n, NEW list \in D[i - 1]
      PROVE  Step(list, i) \in D[i]
  <2>1. /\ i - 1 \in 0 .. n /\ i \in 0 .. n /\ list \in Selections(upTo[i - 1])
        /\ upTo[i - 1] \subseteq SpellIds
    BY <1>3, <1>5
  <2>2. upTo[i] = upTo[i - 1] \cup {id \in SpellIds : Eligible(id, order[i], who)}
    BY <1>3, <2>1
  <2> QED
    BY <2>1, <2>2, WithClassSelects
<1>6. ASSUME NEW i \in 1 .. n, NEW list \in All
      PROVE  Step(list, i) \in All
  <2>1. PICK S \in SUBSET SpellIds : list \in Selections(S)
    BY <1>6
  <2>2. PICK T : T = S \cup {id \in SpellIds : Eligible(id, order[i], who)}
    OBVIOUS
  <2>3. T \in SUBSET SpellIds /\ Step(list, i) \in Selections(T)
    BY <2>1, <2>2, WithClassSelects
  <2> HIDE DEF Step
  <2> QED
    BY <2>3
<1>7. upTo[n] = EligibleFor(mask, who)
  <2>1. upTo[n] = {id \in SpellIds : \E j \in 1 .. n : Eligible(id, order[j], who)}
    BY <1>3
  <2> QED
    BY <1>2, <2>1 DEF EligibleFor
<1> HIDE DEF Step, n
<1>8. step \in [1 .. n -> [All -> All]] /\ \A i \in 1 .. n, list \in All : step[i][list] = Step(list, i)
  BY <1>6
<1> HIDE DEF step, All, D, upTo
<1>9. \E f : Is(f)
  <2>1. Runs(All, n, <<>>, step) # {}
    BY <1>3, <1>4, <1>8, RunExists
  <2>2. PICK f \in [0 .. n -> All] : f[0] = <<>> /\ \A i \in 1 .. n : f[i] = step[i][f[i - 1]]
    BY <2>1 DEF Runs
  <2>3. \A i \in 1 .. n : f[i] = Step(f[i - 1], i)
    BY <1>3, <1>8, <2>2
  <2> QED
    BY <1>3, <2>2, <2>3
<1>10. Is(selected)
  BY <1>9
<1> HIDE DEF selected
<1>11. selected[0] = <<>> /\ \A i \in 1 .. n : selected[i] = Step(selected[i - 1], i)
  BY <1>3, <1>10
<1>12. \A i \in 0 .. n : selected[i] \in D[i]
  BY <1>3, <1>4, <1>5, <1>11, AllStages
<1>13. selected[n] \in D[n] /\ D[n] = Selections(upTo[n])
  BY <1>3, <1>12 DEF D
<1> QED
  BY <1>1, <1>7, <1>13

\* What a synthesis selects is the best of each group of the eligible spells, in
\* whatever order the classes come and also when the list is full.
THEOREM SelectsBest ==
    ASSUME NEW mask, mask # {}, IsPlayableClassMask(mask), NEW who,
           NEW ids, ids = SelectCandidates(mask, who)
    PROVE  /\ IsInjective(ids)
           /\ ToSet(ids) \subseteq EligibleFor(mask, who)
           /\ \A id \in EligibleFor(mask, who) :
                /\ \A chosen \in ToSet(ids) :
                       SameGroup(id, chosen) => ~CandidateBetter(id, chosen)
                /\ Len(ids) < Capacity =>
                       Contains(ids, id) \/ \E chosen \in ToSet(ids) : SameGroup(id, chosen)
<1>1. PICK eligible : eligible = EligibleFor(mask, who)
  OBVIOUS
<1>2. ids \in Selections(eligible)
  BY <1>1, SelectCandidatesSelects
<1>3. /\ ids \in Seq(SpellIds) /\ DOMAIN ids = 1 .. Len(ids)
      /\ ToSet(ids) = {ids[i] : i \in 1 .. Len(ids)}
  BY <1>2, LenProperties DEF Selections, ToSet
<1>4. IsInjective(ids)
  BY <1>2, <1>3 DEF Selections, IsInjective
<1>5. ToSet(ids) \subseteq eligible
  BY <1>2, <1>3 DEF Selections
<1>6. \A id \in eligible : \A chosen \in ToSet(ids) :
          SameGroup(id, chosen) => ~CandidateBetter(id, chosen)
  BY <1>2, <1>3 DEF Selections
<1>7. ASSUME Len(ids) < Capacity, NEW id \in eligible
      PROVE  Contains(ids, id) \/ \E chosen \in ToSet(ids) : SameGroup(id, chosen)
  <2>1. PICK i \in 1 .. Len(ids) : ids[i] = id \/ SameGroup(id, ids[i])
    BY <1>2, <1>7 DEF Selections
  <2> QED
    BY <1>3, <2>1 DEF Contains
<1> QED
  BY <1>1, <1>4, <1>5, <1>6, <1>7

\* The learned disciplines, as far as there is room.
LEMMA LearnedTyped ==
    ASSUME NEW learned \in Seq(Int)
    PROVE  BuildCombatAbilityArrayFromLearnedDisciplines(learned) \in Seq(Nat)
<1> DEFINE n == Len(learned)
           Step(list, i) == WithLearned(list, learned[i])
           Is(f) == f = [i \in 0 .. n |-> IF i = 0 THEN <<>> ELSE Step(f[i - 1], i)]
           ids   == CHOOSE f : Is(f)
           All   == Seq(Nat)
           step  == [i \in 1 .. n |-> [list \in All |-> Step(list, i)]]
<1>1. BuildCombatAbilityArrayFromLearnedDisciplines(learned) = ids[n]
  BY DEF BuildCombatAbilityArrayFromLearnedDisciplines
<1>2. n \in Nat /\ \A i \in 1 .. n : learned[i] \in Int
  BY LenProperties, ElementOfSeq
<1>3. <<>> \in All
  BY EmptySeq
<1>4. ASSUME NEW i \in 1 .. n, NEW list \in All
      PROVE  Step(list, i) \in All
  <2>1. CASE learned[i] <= 0 \/ Contains(list, learned[i]) \/ Len(list) >= Capacity
    BY <2>1 DEF WithLearned
  <2>2. CASE ~(learned[i] <= 0 \/ Contains(list, learned[i]) \/ Len(list) >= Capacity)
    <3>1. learned[i] \in Nat
      BY <1>2, <2>2
    <3>2. Append(list, learned[i]) \in All
      BY <3>1, AppendProperties
    <3> QED
      BY <2>2, <3>2 DEF WithLearned
  <2> QED
    BY <2>1, <2>2
<1> HIDE DEF Step, n
<1>5. step \in [1 .. n -> [All -> All]] /\ \A i \in 1 .. n, list \in All : step[i][list] = Step(list, i)
  BY <1>4
<1> HIDE DEF step, All
<1>6. \E f : Is(f)
  <2>1. Runs(All, n, <<>>, step) # {}
    BY <1>2, <1>3, <1>5, RunExists
  <2>2. PICK f \in [0 .. n -> All] : f[0] = <<>> /\ \A i \in 1 .. n : f[i] = step[i][f[i - 1]]
    BY <2>1 DEF Runs
  <2>3. \A i \in 1 .. n : f[i] = Step(f[i - 1], i)
    BY <1>2, <1>5, <2>2
  <2> QED
    BY <1>2, <2>2, <2>3
<1>7. Is(ids)
  BY <1>6
<1> HIDE DEF ids
<1>8. ids[0] = <<>> /\ \A i \in 1 .. n : ids[i] = Step(ids[i - 1], i)
  BY <1>2, <1>7
<1>9. \A i \in 0 .. n : ids[i] \in All
  BY <1>2, <1>3, <1>4, <1>8, AllSteps
<1> QED
  BY <1>1, <1>2, <1>9 DEF All

LEMMA SynthesisTyped ==
    ASSUME NEW mask, NEW who \in Players, NEW manager
    PROVE  SynthesizeCombatAbilityArrayFromSpellbook(mask, who, manager) \in Seq(Nat)
<1>1. BuildCombatAbilityArrayFromLearnedDisciplines(who.learned) \in Seq(Nat)
  BY LearnedTyped, CombatAssumption
<1>2. mask # {} /\ IsPlayableClassMask(mask) => SelectCandidates(mask, who) \in Seq(Nat)
  <2>1. ASSUME mask # {}, IsPlayableClassMask(mask)
        PROVE  SelectCandidates(mask, who) \in Seq(SpellIds)
    BY <2>1, SelectCandidatesSelects DEF Selections
  <2>2. SpellIds \subseteq Nat
    BY DEF SpellIds
  <2> QED
    BY <2>1, <2>2, SeqMonotonic
<1>3. <<>> \in Seq(Nat)
  BY EmptySeq
<1> QED
  BY <1>1, <1>2, <1>3 DEF SynthesizeCombatAbilityArrayFromSpellbook

------------------------------------------------------------------------------
(* Combat abilities: the array and the window *)

\* The buffer that is remembered is the one of the last copy into this profile,
\* and while it is intact its content and the array still agree with that copy.
ClientCopyKept ==
    copied # NoCopy =>
        /\ source = [buffer |-> copied.buffer, length |-> Len(copied.content)]
        /\ copied.buffer \in Buffers
        /\ copied.intact =>
              /\ buffer[copied.buffer] # Unmapped
              /\ copied.content = SubSeq(buffer[copied.buffer], 1, Len(copied.content))
              /\ HasAbility(copied.content) =>
                    \A i \in 1 .. Len(copied.content) : array[i] = copied.content[i]

\* A show that is under way was taken from the pending one.
ShowTaken ==
    /\ showing \in {0, 1}
    /\ showing = 1 => ~showPending
    /\ owed => showPending \/ showing = 1

CombatInv ==
    /\ CombatTypeOK
    /\ ClientCopyKept
    /\ ShowTaken

\* The leading entries of what a buffer holds.
LEMMA ContentPrefix ==
    ASSUME NEW content \in Arrays, NEW length \in 0 .. Capacity
    PROVE  /\ SubSeq(content, 1, length) \in Seq(Nat)
           /\ Len(SubSeq(content, 1, length)) = length
           /\ \A i \in 1 .. length : SubSeq(content, 1, length)[i] = content[i]
<1>1. Capacity \in Nat /\ length \in Int
  BY CombatAssumption
<1>2. \A i \in 1 .. length : content[i] \in Nat
  BY <1>1 DEF Arrays
<1>3. length - 1 + 1 = length /\ \A i \in 1 .. length : 1 + i - 1 = i
  BY <1>1
<1>4. /\ SubSeq(content, 1, length) \in Seq(Nat)
      /\ Len(SubSeq(content, 1, length)) = IF 1 <= length THEN length - 1 + 1 ELSE 0
      /\ \A i \in 1 .. length - 1 + 1 : SubSeq(content, 1, length)[i] = content[1 + i - 1]
  BY <1>1, <1>2, SubSeqProperties
<1> QED
  BY <1>1, <1>3, <1>4

LEMMA OverlayTyped ==
    ASSUME array \in Arrays, NEW entries \in Seq(Nat)
    PROVE  Overlay(entries) \in Arrays
<1>1. Len(entries) \in Nat /\ \A i \in 1 .. Len(entries) : entries[i] \in Nat
  BY LenProperties, ElementOfSeq
<1> QED
  BY <1>1, CombatAssumption DEF Overlay, Arrays

LEMMA CopyArrayStep ==
    ASSUME CombatInv, NEW b \in Buffers, NEW length \in Lengths, NEW local \in BOOLEAN,
           CopyArray(b, length, local), UNCHANGED auth
    PROVE  CombatInv'
<1> DEFINE entries == SubSeq(buffer[b], 1, length)
<1>1. /\ array' = IF local THEN Overlay(entries) ELSE array
      /\ copied' = IF local THEN [content |-> entries, buffer |-> b, intact |-> TRUE] ELSE copied
      /\ source' = IF local THEN [buffer |-> b, length |-> length] ELSE source
      /\ buffer[b] # Unmapped
      /\ UNCHANGED <<player, buffer, showPending, window, showing, owed>>
  BY DEF CopyArray
<1>2. length \in 0 .. Capacity /\ Capacity \in Nat /\ buffer[b] \in Arrays
  BY <1>1, CombatAssumption DEF CombatInv, CombatTypeOK
<1>3. /\ entries \in Seq(Nat) /\ Len(entries) = length
      /\ \A i \in 1 .. length : entries[i] = buffer[b][i]
  BY <1>2, ContentPrefix
<1>4. entries = SubSeq(buffer'[b], 1, Len(entries))
  BY <1>1, <1>3
<1> HIDE DEF entries
<1>5. Overlay(entries) \in Arrays
  BY <1>3, OverlayTyped DEF CombatInv, CombatTypeOK
<1>6. \A i \in 1 .. Len(entries) : Overlay(entries)[i] = entries[i]
  BY <1>2, <1>3 DEF Overlay
<1>7. CombatTypeOK'
  BY <1>1, <1>2, <1>3, <1>5 DEF CombatInv, CombatTypeOK
<1>8. ClientCopyKept'
  <2>1. CASE local
    <3>1. /\ copied'.content = entries /\ copied'.buffer = b
          /\ source' = [buffer |-> b, length |-> length] /\ array' = Overlay(entries)
          /\ buffer' = buffer
      BY <1>1, <2>1
    <3> QED
      BY <1>1, <1>3, <1>4, <1>6, <3>1 DEF ClientCopyKept
  <2>2. CASE ~local
    BY <1>1, <2>2 DEF CombatInv, ClientCopyKept
  <2> QED
    BY <2>1, <2>2
<1>9. ShowTaken'
  BY <1>1 DEF CombatInv, ShowTaken
<1> QED
  BY <1>7, <1>8, <1>9 DEF CombatInv

\* What the client copied is what a resync writes again.
LEMMA ReplayedIsCopy ==
    ASSUME CombatInv, copied # NoCopy, copied.intact, HasAbility(copied.content)
    PROVE  Replayed = copied.content
<1>1. copied.content \in Seq(Nat) /\ Len(copied.content) # 0
  <2>1. copied.content \in Seq(Nat)
    BY DEF CombatInv, CombatTypeOK
  <2> QED
    BY <2>1, LenProperties DEF HasAbility
<1>2. /\ source.length = Len(copied.content) /\ source.buffer = copied.buffer
      /\ buffer[copied.buffer] # Unmapped
      /\ copied.content = SubSeq(buffer[copied.buffer], 1, Len(copied.content))
  BY DEF CombatInv, ClientCopyKept
<1> QED
  BY <1>1, <1>2 DEF Replayed

LEMMA ReplayedTyped ==
    ASSUME CombatInv
    PROVE  Replayed \in Seq(Nat)
<1>1. CASE source.length = 0 \/ buffer[source.buffer] = Unmapped
  BY <1>1, EmptySeq DEF Replayed
<1>2. CASE ~(source.length = 0 \/ buffer[source.buffer] = Unmapped)
  <2>1. /\ source.length \in 0 .. Capacity /\ source.buffer \in Buffers
        /\ buffer[source.buffer] \in Arrays
    BY <1>2, CombatAssumption DEF CombatInv, CombatTypeOK, NoSource
  <2> QED
    BY <1>2, <2>1, ContentPrefix DEF Replayed
<1> QED
  BY <1>1, <1>2

LEMMA ResyncStep ==
    ASSUME CombatInv, NEW mask, NEW manager, Resync(mask, manager), showing = 0,
           auth' \in Masks
    PROVE  CombatInv'
<1>1. PICK entries :
         entries = IF HasAbility(Replayed) THEN Replayed
                   ELSE SynthesizeCombatAbilityArrayFromSpellbook(mask, player, manager)
  OBVIOUS
<1>2. PICK success \in BOOLEAN : success = (player # NoPlayer /\ entries # <<>>)
  OBVIOUS
<1>3. /\ array' = IF success THEN Overlay(entries) ELSE array
      /\ showPending' = (success \/ showPending)
      /\ owed' = (success \/ owed)
      /\ UNCHANGED <<player, buffer, source, window, showing, copied>>
  BY <1>1, <1>2 DEF Resync
<1>4. success => entries \in Seq(Nat)
  BY <1>1, <1>2, ReplayedTyped, SynthesisTyped DEF CombatInv, CombatTypeOK
<1>5. success => Overlay(entries) \in Arrays
  BY <1>4, OverlayTyped DEF CombatInv, CombatTypeOK
<1>6. CombatTypeOK'
  BY <1>3, <1>5 DEF CombatInv, CombatTypeOK
<1>7. ASSUME copied # NoCopy, copied.intact, HasAbility(copied.content),
             NEW i \in 1 .. Len(copied.content)
      PROVE  array'[i] = copied.content[i]
  <2>1. entries = copied.content
    BY <1>1, <1>7, ReplayedIsCopy
  <2>2. array[i] = copied.content[i]
    BY <1>7 DEF CombatInv, ClientCopyKept
  <2>3. i \in 1 .. Capacity /\ i <= Len(copied.content)
    <3>1. source \in [buffer : Buffers, length : 0..Capacity] \cup {NoSource}
      BY DEF CombatInv, CombatTypeOK
    <3>2. source.length = Len(copied.content) /\ Capacity \in Nat
      BY <1>7, CombatAssumption DEF CombatInv, ClientCopyKept
    <3>3. Len(copied.content) \in 0 .. Capacity
      BY <3>1, <3>2 DEF NoSource
    <3> QED
      BY <1>7, <3>2, <3>3
  <2> QED
    BY <1>3, <2>1, <2>2, <2>3 DEF Overlay
<1>8. ClientCopyKept'
  BY <1>3, <1>7 DEF CombatInv, ClientCopyKept
<1>9. ShowTaken'
  BY <1>3 DEF CombatInv, ShowTaken
<1> QED
  BY <1>6, <1>8, <1>9 DEF CombatInv

LEMMA RebuildStep ==
    ASSUME CombatInv, NEW found \in BOOLEAN, NEW readable \in BOOLEAN,
           RebuildAbilityList(found, readable), UNCHANGED auth
    PROVE  CombatInv'
<1>1. /\ TryForceCombatAbilityWindowVisible(found, readable)
      /\ owed' = (owed /\ ~(showPending /\ ~showPending' /\ window = "visible"))
      /\ UNCHANGED <<player, array, buffer, source, window, copied>>
  BY DEF RebuildAbilityList
<1>2. CASE UNCHANGED <<showPending, showing>>
  BY <1>1, <1>2 DEF CombatInv, CombatTypeOK, ClientCopyKept, ShowTaken
<1>3. CASE ~UNCHANGED <<showPending, showing>>
  <2>1. /\ showPending /\ showPending' = FALSE
        /\ showing' = IF window = "visible" THEN showing ELSE showing + 1
    BY <1>1, <1>3 DEF TryForceCombatAbilityWindowVisible
  <2>2. showing = 0
    BY <2>1 DEF CombatInv, ShowTaken
  <2>3. ShowTaken'
    <3>1. showing' = IF window = "visible" THEN 0 ELSE 1
      BY <2>1, <2>2
    <3>2. window = "visible" => owed' = FALSE
      BY <1>1, <2>1
    <3> QED
      BY <2>1, <3>1, <3>2 DEF ShowTaken
  <2>4. CombatTypeOK'
    <3>1. showing' \in Nat
      BY <2>1, <2>2
    <3>2. owed' \in BOOLEAN
      BY <1>1 DEF CombatInv, CombatTypeOK
    <3> QED
      BY <1>1, <2>1, <3>1, <3>2 DEF CombatInv, CombatTypeOK
  <2>5. ClientCopyKept'
    BY <1>1 DEF CombatInv, ClientCopyKept
  <2> QED
    BY <2>3, <2>4, <2>5 DEF CombatInv
<1> QED
  BY <1>2, <1>3

LEMMA ClientStep ==
    ASSUME CombatInv, ClientSteps, UNCHANGED auth, showing = 0
    PROVE  CombatInv'
<1>1. ASSUME NEW b \in Buffers, NEW content \in Contents \cup {Unmapped},
             BufferChanges(b, content)
      PROVE  CombatInv'
  <2>1. /\ buffer' = [buffer EXCEPT ![b] = content]
        /\ copied' = IF copied # NoCopy /\ copied.buffer = b
                     THEN [copied EXCEPT !.intact = FALSE] ELSE copied
        /\ UNCHANGED <<player, array, source, showPending, window, showing, owed>>
    BY <1>1 DEF BufferChanges
  <2>2. CASE copied # NoCopy /\ copied.buffer = b
    <3>1. /\ copied \in [content : Seq(Nat), buffer : Buffers, intact : BOOLEAN]
          /\ copied' = [copied EXCEPT !.intact = FALSE]
      BY <2>1, <2>2 DEF CombatInv, CombatTypeOK
    <3>2. /\ copied'.content = copied.content /\ copied'.buffer = copied.buffer
          /\ ~copied'.intact
          /\ copied' \in [content : Seq(Nat), buffer : Buffers, intact : BOOLEAN]
      BY <3>1
    <3> QED
      BY <1>1, <2>1, <2>2, <3>2 DEF CombatInv, CombatTypeOK, ClientCopyKept, ShowTaken
  <2>3. CASE ~(copied # NoCopy /\ copied.buffer = b)
    <3>1. copied' = copied /\ (copied # NoCopy => buffer'[copied.buffer] = buffer[copied.buffer])
      BY <2>1, <2>3 DEF CombatInv, CombatTypeOK, ClientCopyKept
    <3> QED
      BY <1>1, <2>1, <3>1 DEF CombatInv, CombatTypeOK, ClientCopyKept, ShowTaken
  <2> QED
    BY <2>2, <2>3
<1>2. ASSUME NEW who \in Players \cup {NoPlayer}, PlayerChanges(who)
      PROVE  CombatInv'
  <2>1. /\ player' = who
        /\ \/ array' = Empty /\ copied' = NoCopy
           \/ UNCHANGED <<array, copied>>
        /\ UNCHANGED <<buffer, source, showPending, window, showing, owed>>
    BY <1>2 DEF PlayerChanges
  <2>2. Empty \in Arrays
    BY DEF Empty, Arrays
  <2> QED
    BY <1>2, <2>1, <2>2 DEF CombatInv, CombatTypeOK, ClientCopyKept, ShowTaken
<1>3. ASSUME NEW state \in {"none", "hidden"}, WindowChanges(state)
      PROVE  CombatInv'
  BY <1>3 DEF WindowChanges, CombatInv, CombatTypeOK, ClientCopyKept, ShowTaken
<1>4. ASSUME ClientShows
      PROVE  CombatInv'
  BY <1>4 DEF ClientShows, CombatInv, CombatTypeOK, ClientCopyKept, ShowTaken
<1> QED
  BY <1>1, <1>2, <1>3, <1>4, CopyArrayStep DEF ClientSteps

LEMMA NextCombatInv == CombatInv /\ [CombatNext]_<<auth, combatVars>> => CombatInv'
<1> SUFFICES ASSUME CombatInv, [CombatNext]_<<auth, combatVars>> PROVE CombatInv'
  OBVIOUS
<1>1. ASSUME showing = 0, NEW mask \in ReceivedMasks, NEW manager \in BOOLEAN,
             ReceiveMask(mask, manager)
      PROVE  CombatInv'
  <2>1. auth' \in Masks
    BY <1>1, AssignedMaskAssumption DEF ReceiveMask
  <2>2. CASE UNCHANGED combatVars
    BY <2>1, <2>2 DEF combatVars, CombatInv, CombatTypeOK, ClientCopyKept, ShowTaken, Empty
  <2>3. CASE Resync(mask, manager)
    BY <1>1, <2>1, <2>3, ResyncStep
  <2> QED
    BY <1>1, <2>2, <2>3 DEF ReceiveMask
<1>2. ASSUME showing = 0, RetryResync
      PROVE  CombatInv'
  BY <1>2, ResyncStep DEF RetryResync, CombatInv, CombatTypeOK
<1>3. ASSUME NEW ok \in BOOLEAN, ShowReturns(ok), UNCHANGED auth
      PROVE  CombatInv'
  <2>1. showing = 1
    BY <1>3 DEF ShowReturns, CombatInv, ShowTaken
  <2>2. /\ showing' = 0 /\ owed' = FALSE
        /\ window' = IF ok THEN "visible" ELSE window
        /\ UNCHANGED <<player, array, buffer, source, showPending, copied>>
    BY <1>3, <2>1 DEF ShowReturns
  <2>3. CombatTypeOK'
    BY <1>3, <2>2 DEF CombatInv, CombatTypeOK
  <2>4. ClientCopyKept'
    BY <2>2 DEF CombatInv, ClientCopyKept
  <2>5. ShowTaken'
    BY <2>2 DEF CombatInv, ShowTaken
  <2> QED
    BY <2>3, <2>4, <2>5 DEF CombatInv
<1>4. CASE UNCHANGED <<auth, combatVars>>
  BY <1>4 DEF combatVars, CombatInv, CombatTypeOK, ClientCopyKept, ShowTaken
<1> QED
  BY <1>1, <1>2, <1>3, <1>4, ClientStep, RebuildStep DEF CombatNext, CombatCalls

LEMMA InitCombatInv == auth = {} /\ CombatInit => CombatInv
<1> SUFFICES ASSUME auth = {}, CombatInit PROVE CombatInv
  OBVIOUS
<1>1. Empty \in Arrays
  BY DEF Empty, Arrays
<1> QED
  BY <1>1 DEF CombatInit, CombatInv, CombatTypeOK, ClientCopyKept, ShowTaken, Masks

\* What is remembered of the client's last copy agrees with its buffer and the array
\* while the buffer is intact (TrySnapshotCombatAbilityArray).
THEOREM CombatInvariant == CombatSpec => []CombatInv
<1>1. auth = {} /\ CombatInit => CombatInv
  BY InitCombatInv
<1>2. CombatInv /\ [CombatNext]_<<auth, combatVars>> => CombatInv'
  BY NextCombatInv
<1> QED
  BY <1>1, <1>2, PTL DEF CombatSpec

\* The array holds ability ids in all its places, whatever the learned disciplines
\* and the client's buffers hold, and the rest of the state stays in its range.
THEOREM CombatTypeCorrect == CombatSpec => []CombatTypeOK
<1>1. CombatInv => CombatTypeOK
  BY DEF CombatInv
<1> QED
  BY <1>1, CombatInvariant, PTL

LEMMA CombatInvKeepsCopy == CombatInv => ResyncKeepsClientCopy
<1> SUFFICES ASSUME CombatInv, copied # NoCopy, copied.intact, HasAbility(copied.content)
             PROVE  SubSeq(array, 1, Len(copied.content)) = copied.content
  BY DEF ResyncKeepsClientCopy
<1>1. /\ copied.content \in Seq(Nat) /\ array \in Arrays
      /\ source \in [buffer : Buffers, length : 0..Capacity] \cup {NoSource}
  BY DEF CombatInv, CombatTypeOK
<1>2. /\ source.length = Len(copied.content) /\ Capacity \in Nat
      /\ \A i \in 1 .. Len(copied.content) : array[i] = copied.content[i]
  BY CombatAssumption DEF CombatInv, ClientCopyKept
<1>3. Len(copied.content) \in 0 .. Capacity
  BY <1>1, <1>2 DEF NoSource
<1>4. /\ SubSeq(array, 1, Len(copied.content)) \in Seq(Nat)
      /\ Len(SubSeq(array, 1, Len(copied.content))) = Len(copied.content)
      /\ \A i \in 1 .. Len(copied.content) :
            SubSeq(array, 1, Len(copied.content))[i] = copied.content[i]
  BY <1>1, <1>2, <1>3, ContentPrefix
<1> QED
  BY <1>1, <1>4, SeqEqual

\* No resync changes what the client copied, while the buffer it copied from is
\* intact.
THEOREM ClientCopyStays == CombatSpec => []ResyncKeepsClientCopy
BY CombatInvariant, CombatInvKeepsCopy, PTL

LEMMA CombatInvShows == CombatInv => ShowNotForgotten /\ ShowNotNested
BY DEF CombatInv, ShowTaken, ShowNotForgotten, ShowNotNested

\* The show a resync asked for is pending or under way until it has happened.
THEOREM ShowKept == CombatSpec => []ShowNotForgotten
BY CombatInvariant, CombatInvShows, PTL

\* The rebuild of the list within the client's Show does not show the window again.
THEOREM ShowOnce == CombatSpec => []ShowNotNested
BY CombatInvariant, CombatInvShows, PTL

\* What a synthesis would select in any state is the best of each group.
THEOREM SynthesisBest == CombatSpec => []SynthesisKeepsBest
<1>1. SynthesisKeepsBest
  BY SelectsBest DEF SynthesisKeepsBest
<1> QED
  BY <1>1, PTL

------------------------------------------------------------------------------
(* The three parts under one mask.  A packet changes the mask for each of     *)
(* them, and what a part relies on of the mask is only that it is one, so the *)
(* invariants hold side by side.                                              *)

UsableInv == CombatInv /\ GateInv /\ HandInv

LEMMA NextUsableInv == UsableInv /\ [Next]_usableVars => UsableInv'
<1> SUFFICES ASSUME UsableInv, [Next]_usableVars PROVE UsableInv'
  OBVIOUS
<1>1. ASSUME NEW mask \in ReceivedMasks, NEW manager \in BOOLEAN, Packet(mask, manager)
      PROVE  UsableInv'
  <2>1. CombatNext /\ GateNext /\ HandNext
    BY <1>1 DEF Packet, CombatNext, GateNext, HandNext
  <2> QED
    BY <2>1, NextCombatInv, NextGateInv, NextHandInv DEF UsableInv
<1>2. CASE CombatCalls /\ UNCHANGED <<gateVars, handVars>>
  <2>1. CombatNext /\ auth' = auth
    BY <1>2 DEF CombatNext, CombatCalls, RetryResync
  <2> QED
    BY <1>2, <2>1, NextCombatInv, NextGateInv, NextHandInv DEF UsableInv
<1>3. CASE GateCalls /\ UNCHANGED <<auth, combatVars, handVars>>
  <2>1. GateNext
    BY <1>3 DEF GateNext
  <2> QED
    BY <1>3, <2>1, NextCombatInv, NextGateInv, NextHandInv DEF UsableInv
<1>4. CASE (Clicking \/ OtherMoves) /\ UNCHANGED <<auth, combatVars, gateVars>>
  <2>1. HandNext
    BY <1>4 DEF HandNext
  <2> QED
    BY <1>4, <2>1, NextCombatInv, NextGateInv, NextHandInv DEF UsableInv
<1>5. CASE UNCHANGED usableVars
  BY <1>5, NextCombatInv, NextGateInv, NextHandInv DEF UsableInv, usableVars
<1> QED
  BY <1>1, <1>2, <1>3, <1>4, <1>5 DEF Next

\* The invariants of the three parts hold together: a packet, which sets the mask
\* for all of them, is a step of each, and a call of one leaves the others alone
\* (ReceiveDispatchHook).
THEOREM UsableInvariant == Spec => []UsableInv
<1>1. Init => UsableInv
  BY InitCombatInv, InitGateInv, InitHandInv DEF Init, UsableInv
<1>2. UsableInv /\ [Next]_usableVars => UsableInv'
  BY NextUsableInv
<1> QED
  BY <1>1, <1>2, PTL DEF Spec

\* The state of all three parts stays in its range, whatever masks arrive between
\* their calls.
THEOREM UsableTypeCorrect == Spec => []TypeOK
<1>1. UsableInv => TypeOK
  BY DEF UsableInv, CombatInv, GateInv, HandInv, TypeOK
<1> QED
  BY <1>1, UsableInvariant, PTL

\* With all three under one mask, the combat abilities keep what the client copied
\* and show their window once (TryResyncLocalCombatAbilityArrayFromLastSource,
\* TryForceCombatAbilityWindowVisible).
THEOREM UsableCombat ==
    Spec => [](/\ SynthesisKeepsBest
               /\ ResyncKeepsClientCopy
               /\ ShowNotForgotten
               /\ ShowNotNested)
<1>1. SynthesisKeepsBest
  BY SelectsBest DEF SynthesisKeepsBest
<1>2. UsableInv => ResyncKeepsClientCopy /\ ShowNotForgotten /\ ShowNotNested
  BY CombatInvKeepsCopy, CombatInvShows DEF UsableInv
<1> QED
  BY <1>1, <1>2, UsableInvariant, PTL

\* Whatever masks and copies come between its calls, the gate is overridden for its
\* own rejection of the class, at a level the spell has for an assigned class
\* (StartSpellScribePrecheckGateHook, SelectLowestValidRequiredLevel).
THEOREM UsableSpells ==
    Spec => [](OverrideIsForOwnClassReject /\ LevelForOverriddenSpell)
BY UsableInvariant, OverrideFromGateInv, LevelFromGateInv, PTL DEF UsableInv

\* And the hands the hooks remember are those worn, so that a weapon is given or
\* refused for what is in the other hand (ObserveHandEquipmentMoveSend,
\* EvaluateHandEquipConflict).
THEOREM UsableHands ==
    Spec => [](CacheShowsHands /\ RevokedOnlyForConflict /\ GrantedOnlyWithoutConflict)
BY UsableInvariant, HandInvRevoked, HandInvGranted, PTL DEF UsableInv, HandInv
===============================================================================

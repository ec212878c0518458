-------------------------- MODULE FaceCaptureProofs --------------------------
(***************************************************************************)
(* What a face capture guarantees for any head movements, any challenge    *)
(* however long, any number of readings in a streak and in a window, and   *)
(* any number of cameras and runs.                                         *)
(*                                                                         *)
(* The camera's invariant is inductive as it stands.  A frame that waited  *)
(* for the person rests on the streak that run() still holds when it       *)
(* comes to take it.  That a capture keeps its promise - it hands over     *)
(* once every step has its frame - rests on what groups() makes of a       *)
(* challenge: the groups lie one after the other over the steps, so the    *)
(* place of the run in its group is a place in the challenge.              *)
(***************************************************************************)
EXTENDS FaceCapture, FiniteSetTheorems, WellFoundedInduction, SequenceTheorems, TLAPS

USE CaptureAssumption

Asked == Moves \cup {Center}
GroupType == [step : Asked, count : Nat \ {0}]

-----------------------------------------------------------------------------
(* groups().                                                               *)

\* Induction over the numbers, for a set: of the initial segments that end at a
\* number outside T, a smallest one would have a smaller one inside.
LEMMA Induction ==
    ASSUME NEW T, 0 \in T, \A n \in Nat : n \in T => n + 1 \in T
    PROVE  Nat \subseteq T
  <1> DEFINE Down(n) == 0..n
             Downs   == {Down(n) : n \in Nat \ T}
  <1>1. SUFFICES ASSUME Downs # {}
                 PROVE  FALSE
    OBVIOUS
  <1>2. Downs \subseteq FiniteSubsetsOf(Nat)
    <2>1. \A n \in Nat : IsFiniteSet(0..n) /\ 0..n \subseteq Nat
      BY FS_Interval
    <2> QED
      BY <2>1 DEF FiniteSubsetsOf
  <1>3. PICK D \in Downs : \A E \in Downs : <<E, D>> \notin StrictSubsetOrdering(Nat)
    <2> HIDE DEF Downs
    <2> QED
      BY <1>1, <1>2, WFMin, FS_StrictSubsetOrderingWellFounded
  <1>4. PICK m \in Nat \ T : D = Down(m)
    BY <1>3
  <1>5. m - 1 \in Nat /\ (m - 1) + 1 = m
    BY <1>4
  <1>6. m - 1 \in Nat \ T
    BY <1>4, <1>5
  <1>7. Down(m - 1) \in Downs
    BY <1>6
  <1>8. /\ Down(m - 1) \in SUBSET Nat /\ D \in SUBSET Nat
        /\ Down(m - 1) \subseteq D /\ Down(m - 1) # D
    BY <1>4, <1>5
  <1>9. <<Down(m - 1), D>> \in StrictSubsetOrdering(Nat)
    BY <1>8 DEF StrictSubsetOrdering
  <1> QED
    BY <1>3, <1>7, <1>9

\* What reduce() has made of the first i steps, for each i up to n.
OutsTo(s, n, f) == f = [i \in 0..n |-> IF i = 0 THEN <<>> ELSE Grouped(f[i - 1], s[i])]

\* The groups lie one after the other over the first n steps, at the offsets off.
Lays(out, s, n, off) ==
    /\ off \in [1..Len(out) + 1 -> Nat]
    /\ off[1] = 0 /\ off[Len(out) + 1] = n
    /\ \A g \in 1..Len(out) :
           /\ off[g + 1] = off[g] + out[g].count /\ off[g + 1] <= n
           /\ \A j \in 1..out[g].count : s[off[g] + j] = out[g].step

\* reduce() goes through the whole challenge.
LEMMA OutsExist ==
    ASSUME NEW s, NEW n \in Nat
    PROVE  \E f : OutsTo(s, n, f)
  <1> DEFINE T == {k \in Nat : \E f : OutsTo(s, k, f)}
  <1>1. 0 \in T
    <2>1. OutsTo(s, 0, [i \in 0..0 |-> <<>>])
      BY DEF OutsTo
    <2> QED
      BY <2>1
  <1>2. ASSUME NEW k \in Nat, k \in T
        PROVE  k + 1 \in T
    <2>1. PICK f : OutsTo(s, k, f)
      BY <1>2
    <2> DEFINE g == [i \in 0..(k + 1) |-> IF i = k + 1 THEN Grouped(f[k], s[k + 1]) ELSE f[i]]
    <2>2. \A i \in 0..(k + 1) : g[i] = IF i = 0 THEN <<>> ELSE Grouped(g[i - 1], s[i])
      <3> TAKE i \in 0..(k + 1)
      <3>1. CASE i = 0
        BY <2>1, <3>1 DEF OutsTo
      <3>2. CASE i \in 1..k
        <4>1. i - 1 \in 0..k /\ i \in 0..k /\ i # k + 1 /\ i - 1 # k + 1 /\ i # 0
          BY <3>2
        <4>2. g[i] = f[i] /\ g[i - 1] = f[i - 1]
          BY <4>1
        <4>3. f[i] = Grouped(f[i - 1], s[i])
          BY <2>1, <4>1 DEF OutsTo
        <4> QED
          BY <4>1, <4>2, <4>3
      <3>3. CASE i = k + 1
        <4>1. g[i] = Grouped(f[k], s[k + 1]) /\ g[i - 1] = f[k] /\ i # 0
          BY <3>3
        <4> QED
          BY <3>3, <4>1
      <3> QED
        BY <3>1, <3>2, <3>3
    <2>3. g = [i \in 0..(k + 1) |-> g[i]]
      OBVIOUS
    <2>4. OutsTo(s, k + 1, g)
      <3> HIDE DEF g
      <3> QED
        BY <2>2, <2>3 DEF OutsTo
    <2> QED
      BY <2>4
  <1> HIDE DEF T
  <1>3. Nat \subseteq T
    BY <1>1, <1>2, Induction
  <1> QED
    BY <1>3 DEF T

\* One more step keeps the groups in place.
LEMMA GroupedLays ==
    ASSUME NEW s \in Seq(Asked), NEW n \in Nat, n < Len(s),
           NEW out \in Seq(GroupType), NEW off, Lays(out, s, n, off)
    PROVE  /\ Grouped(out, s[n + 1]) \in Seq(GroupType)
           /\ \E over : Lays(Grouped(out, s[n + 1]), s, n + 1, over)
  <1> DEFINE L    == Len(out)
             x    == s[n + 1]
             more == [step |-> x, count |-> out[L].count + 1]
             one  == [step |-> x, count |-> 1]
  <1>1. x \in Asked /\ L \in Nat
    BY LenProperties, ElementOfSeq
  <1>2. ASSUME NEW g \in 1..L
        PROVE  out[g] \in GroupType /\ out[g].count \in Nat \ {0} /\ out[g].step \in Asked
    <2>1. out[g] \in GroupType
      BY ElementOfSeq
    <2> QED
      BY <2>1 DEF GroupType
  <1>3. CASE out # <<>> /\ out[L].step = x
    <2>1. L \in 1..L
      <3>1. \A seq \in Seq(GroupType) : seq # <<>> => Len(seq) \in Nat \ {0}
        BY EmptySeq
      <3>2. Len(out) \in Nat \ {0}
        BY ZenonT(30), <1>3, <3>1
      <3> QED
        BY SMT, <3>2
    <2>2. more \in GroupType /\ more.step = x /\ more.count = out[L].count + 1
      BY <1>1, <1>2, <2>1 DEF GroupType
    <2> DEFINE new  == [out EXCEPT ![L] = more]
               over == [off EXCEPT ![L + 1] = n + 1]
    <2> HIDE DEF more
    <2>3. /\ new \in Seq(GroupType) /\ Len(new) = L
          /\ new[L] = more /\ \A g \in 1..L : g # L => new[g] = out[g]
      BY <2>1, <2>2, ExceptSeq
    <2>4. Grouped(out, x) = new
      BY <1>3 DEF Grouped, more
    <2>5. /\ over \in [1..L + 1 -> Nat]
          /\ over[L + 1] = n + 1 /\ \A g \in 1..L : over[g] = off[g]
      BY <1>1 DEF Lays
    <2> HIDE DEF new, over
    <2>6. ASSUME NEW g \in 1..L
          PROVE  /\ over[g + 1] = over[g] + new[g].count /\ over[g + 1] <= n + 1
                 /\ \A j \in 1..new[g].count : s[over[g] + j] = new[g].step
      <3>1. /\ off[g] \in Nat /\ off[g + 1] = off[g] + out[g].count /\ off[g + 1] <= n
            /\ \A j \in 1..out[g].count : s[off[g] + j] = out[g].step
        <4>1. g \in 1..L + 1
          BY <1>1
        <4> QED
          BY <4>1 DEF Lays
      <3>2. CASE g = L
        <4>1. off[g + 1] = n
          BY <3>2 DEF Lays
        <4>2. /\ over[g + 1] = n + 1 /\ over[g] = off[g]
              /\ new[g].count = out[g].count + 1 /\ out[g].count \in Nat
          BY <1>2, <2>2, <2>3, <2>5, <3>2
        <4>3. off[g] + out[g].count = n /\ off[g] \in Nat
          BY <3>1, <4>1
        <4>4. off[g] + (out[g].count + 1) = n + 1
          <5>1. \A a, b, c \in Nat : a + b = c => a + (b + 1) = c + 1
            OBVIOUS
          <5>2. off[g] \in Nat /\ out[g].count \in Nat /\ n \in Nat /\ off[g] + out[g].count = n
            BY <4>2, <4>3
          <5> QED
            BY SMTT(60), <5>1, <5>2
        <4>5. over[g + 1] = over[g] + new[g].count /\ over[g + 1] <= n + 1
          BY <4>2, <4>4
        <4>6. ASSUME NEW j \in 1..new[g].count
              PROVE  s[over[g] + j] = new[g].step
          <5>1. CASE j \in 1..out[g].count
            BY <1>3, <2>2, <2>3, <2>5, <3>1, <3>2, <5>1
          <5>2. CASE j = out[g].count + 1
            <6>1. over[g] + j = n + 1
              BY <4>4, <4>2, <5>2
            <6> QED
              BY <2>2, <2>3, <3>2, <6>1
          <5>3. new[g].count = out[g].count + 1 /\ out[g].count \in Nat
            BY <1>2, <2>2, <2>3, <3>2
          <5> QED
            BY <5>1, <5>2, <5>3
        <4> QED
          BY <4>5, <4>6
      <3>3. CASE g # L
        <4>1. g + 1 \in 1..L
          BY <1>1, <3>3
        <4>2. new[g] = out[g] /\ over[g] = off[g] /\ over[g + 1] = off[g + 1]
          BY <2>3, <2>5, <3>3, <4>1
        <4>3. off[g + 1] \in Nat
          BY SMTT(60), <1>2, <3>1
        <4> QED
          BY <3>1, <4>2, <4>3
      <3> QED
        BY <3>2, <3>3
    <2>7. over[1] = 0
      BY <2>1, <2>5 DEF Lays
    <2>8. Lays(new, s, n + 1, over)
      BY <2>3, <2>5, <2>6, <2>7 DEF Lays
    <2> QED
      BY <2>3, <2>4, <2>8
  <1>4. CASE ~(out # <<>> /\ out[L].step = x)
    <2>1. one \in GroupType /\ one.step = x /\ one.count = 1
      BY <1>1 DEF GroupType
    <2> DEFINE new  == Append(out, one)
               over == [g \in 1..L + 2 |-> IF g = L + 2 THEN n + 1 ELSE off[g]]
    <2> HIDE DEF one
    <2>2. /\ new \in Seq(GroupType) /\ Len(new) = L + 1
          /\ new[L + 1] = one /\ \A g \in 1..L : new[g] = out[g]
      BY <2>1, AppendProperties
    <2>3. Grouped(out, x) = new
      BY <1>4 DEF Grouped, one
    <2>4. /\ over \in [1..L + 2 -> Nat]
          /\ over[L + 2] = n + 1 /\ \A g \in 1..L + 1 : over[g] = off[g]
      BY <1>1 DEF Lays
    <2> HIDE DEF new, over
    <2>5. ASSUME NEW g \in 1..L + 1
          PROVE  /\ over[g + 1] = over[g] + new[g].count /\ over[g + 1] <= n + 1
                 /\ \A j \in 1..new[g].count : s[over[g] + j] = new[g].step
      <3>1. CASE g = L + 1
        <4>1. off[g] = n /\ over[g] = n /\ over[g + 1] = n + 1 /\ new[g].count = 1 /\ new[g].step = x
          BY SMTT(60), <1>1, <2>1, <2>2, <2>4, <3>1 DEF Lays
        <4> QED
          BY <4>1
      <3>2. CASE g \in 1..L
        <4>1. /\ off[g] \in Nat /\ off[g + 1] = off[g] + out[g].count /\ off[g + 1] <= n
              /\ \A j \in 1..out[g].count : s[off[g] + j] = out[g].step
              /\ off[g + 1] \in Nat
          <5>1. g \in 1..L + 1 /\ g + 1 \in 1..L + 1
            BY <1>1, <3>2
          <5> QED
            BY <3>2, <5>1 DEF Lays
        <4>2. new[g] = out[g] /\ over[g] = off[g] /\ over[g + 1] = off[g + 1]
          <5>1. g \in 1..L + 1 /\ g + 1 \in 1..L + 1
            BY <1>1, <3>2
          <5> QED
            BY <2>2, <2>4, <3>2, <5>1
        <4> QED
          BY <4>1, <4>2
      <3>3. g = L + 1 \/ g \in 1..L
        BY <1>1
      <3> QED
        BY <3>1, <3>2, <3>3
    <2>6. over[1] = 0
      BY <1>1, <2>4 DEF Lays
    <2>7. Lays(new, s, n + 1, over)
      BY <1>1, <2>2, <2>4, <2>5, <2>6 DEF Lays
    <2> QED
      BY <2>2, <2>3, <2>7
  <1> QED
    BY <1>3, <1>4

\* What groups() answers: the groups of a challenge, lying over all its steps.
LEMMA Grouping ==
    ASSUME NEW s \in Seq(Asked)
    PROVE  /\ groups(s) \in Seq(GroupType)
           /\ \E off : Lays(groups(s), s, Len(s), off)
  <1> DEFINE f == CHOOSE h : OutsTo(s, Len(s), h)
  <1>1. Len(s) \in Nat
    BY LenProperties
  <1>2. OutsTo(s, Len(s), f)
    BY <1>1, OutsExist
  <1>3. groups(s) = f[Len(s)]
    BY DEF groups, OutsTo
  <1> HIDE DEF f
  <1> DEFINE Good(i) == f[i] \in Seq(GroupType) /\ \E off : Lays(f[i], s, i, off)
             T       == {i \in Nat : i <= Len(s) => Good(i)}
  <1>4. 0 \in T
    <2>1. f[0] = <<>>
      BY <1>1, <1>2 DEF OutsTo
    <2>2. Lays(<<>>, s, 0, [g \in 1..1 |-> 0])
      BY DEF Lays
    <2> QED
      BY <2>1, <2>2, EmptySeq
  <1>5. ASSUME NEW i \in Nat, i \in T
        PROVE  i + 1 \in T
    <2>1. SUFFICES ASSUME i + 1 <= Len(s)
                   PROVE  Good(i + 1)
      OBVIOUS
    <2>2. Good(i)
      BY <1>1, <1>5, <2>1
    <2>3. f[i + 1] = Grouped(f[i], s[i + 1])
      <3>1. i + 1 \in 0..Len(s) /\ i + 1 # 0 /\ (i + 1) - 1 = i
        BY <1>1, <2>1
      <3>2. f[i + 1] = Grouped(f[(i + 1) - 1], s[i + 1])
        BY <1>2, <3>1 DEF OutsTo
      <3> QED
        BY <3>1, <3>2
    <2>4. i < Len(s)
      BY <1>1, <2>1
    <2> QED
      BY <2>2, <2>3, <2>4, GroupedLays
  <1>6. Len(s) \in T
    <2> HIDE DEF T
    <2> QED
      BY <1>1, <1>4, <1>5, Induction
  <1> QED
    BY <1>3, <1>6

\* Where the groups of a challenge lie, and what its steps have to do with them.
Off(s) == CHOOSE off : Lays(groups(s), s, Len(s), off)

\* The groups lie one after the other, from the first step to the last.
LEMMA Offsets ==
    ASSUME NEW s \in Seq(Asked), s # <<>>
    PROVE  /\ Len(groups(s)) \in Nat \ {0} /\ Len(s) \in Nat \ {0}
           /\ Off(s)[1] = 0 /\ Off(s)[Len(groups(s)) + 1] = Len(s)
           /\ \A g \in 1..Len(groups(s)) :
                 /\ groups(s)[g].step \in Asked /\ groups(s)[g].count \in Nat \ {0}
                 /\ Off(s)[g] \in Nat /\ Off(s)[g + 1] = Off(s)[g] + groups(s)[g].count
                 /\ Off(s)[g + 1] <= Len(s)
                 /\ \A j \in 1..groups(s)[g].count : s[Off(s)[g] + j] = groups(s)[g].step
  <1>1. groups(s) \in Seq(GroupType) /\ Lays(groups(s), s, Len(s), Off(s))
    BY Grouping DEF Off
  <1>2. Len(groups(s)) \in Nat /\ Len(s) \in Nat \ {0}
    BY <1>1, LenProperties, EmptySeq
  <1>3. Off(s)[1] = 0 /\ Off(s)[Len(groups(s)) + 1] = Len(s)
    BY <1>1 DEF Lays
  <1>4. Len(groups(s)) # 0
    BY <1>2, <1>3
  <1>5. ASSUME NEW g \in 1..Len(groups(s))
        PROVE  /\ groups(s)[g].step \in Asked /\ groups(s)[g].count \in Nat \ {0}
               /\ Off(s)[g] \in Nat /\ Off(s)[g + 1] = Off(s)[g] + groups(s)[g].count
               /\ Off(s)[g + 1] <= Len(s)
               /\ \A j \in 1..groups(s)[g].count : s[Off(s)[g] + j] = groups(s)[g].step
    <2>1. groups(s)[g] \in GroupType
      BY <1>1, ElementOfSeq
    <2>2. groups(s)[g].step \in Asked /\ groups(s)[g].count \in Nat \ {0}
      BY <2>1 DEF GroupType
    <2>3. g \in 1..Len(groups(s)) + 1
      BY <1>2
    <2> QED
      BY <1>1, <2>2, <2>3 DEF Lays
  <1> QED
    BY <1>2, <1>3, <1>4, <1>5

-----------------------------------------------------------------------------
(* The camera.                                                             *)

\* Init and every step keep every camera off but the one of the screen.
LEMMA NextCamera == OnlyTheShownCameraIsOn /\ [Next]_vars => OnlyTheShownCameraIsOn'
  <1> SUFFICES ASSUME OnlyTheShownCameraIsOn, [Next]_vars
               PROVE  OnlyTheShownCameraIsOn'
    OBVIOUS
  <1> USE DEF OnlyTheShownCameraIsOn
  <1>1. ASSUME NEW o \in opening, Opened(o) \/ OpenedMatch(o) \/ OpenFails(o)
        PROVE  OnlyTheShownCameraIsOn'
    BY <1>1 DEF Opened, OpenedMatch, OpenFails, Ready
  <1>2. CASE PreferChanges \/ Unmount
    BY <1>2 DEF PreferChanges, Unmount, Cleanup
  <1>3. ASSUME NEW l \in loads, TrackerReady(l) \/ TrackerFails(l)
        PROVE  OnlyTheShownCameraIsOn'
    BY <1>3 DEF TrackerReady, TrackerFails, cam
  <1>4. CASE Start \/ Go \/ Poll \/ TimesOut \/ TimedWait \/ Take \/ TakeFails \/ Pause
    BY <1>4 DEF Start, Go, Poll, TimesOut, TimedWait, Take, TakeFails, Pause, cam
  <1>5. CASE UNCHANGED vars
    BY <1>5 DEF vars
  <1> QED
    BY <1>1, <1>2, <1>3, <1>4, <1>5 DEF Next

\* Whatever is asked of the camera and in whatever order it answers, only the
\* camera the screen shows is left on (useCamera).
THEOREM CameraTheorem == Spec => []OnlyTheShownCameraIsOn
  <1>1. Init => OnlyTheShownCameraIsOn
    BY DEF Init, OnlyTheShownCameraIsOn
  <1> QED
    BY <1>1, NextCamera, PTL DEF Spec

-----------------------------------------------------------------------------
(* The run.                                                                *)

Types ==
    /\ steps \in Seq(Asked) /\ steps # <<>>
    /\ mounted \in BOOLEAN
    /\ run \in {"idle", "prepare", "waiting", "framing", "pause", "handed", "failed"}
    /\ mode \in {"guided", "timed"}
    /\ group \in Nat \ {0} /\ taken \in Nat /\ streak \in Nat
    /\ frames \in Seq(Asked) /\ waited \in Seq(BOOLEAN)

\* A guided run that comes to take a frame holds the streak it waited for.
Waits ==
    /\ FramesWaitForThePerson
    /\ mode = "guided" /\ run = "framing" => streak >= Steady

\* The frames so far are those of the steps up to where the run is.
Placed ==
    /\ run \in {"prepare", "waiting", "framing"} =>
           group \in 1..Len(Plan) /\ taken < Plan[group].count
    /\ run = "pause" => group \in 1..Len(Plan) /\ taken = Plan[group].count
    /\ run \in {"prepare", "waiting", "framing", "pause"} =>
           /\ Len(frames) = Off(steps)[group] + taken
           /\ \A i \in 1..Len(frames) : frames[i] = steps[i]

IInv == Types /\ Waits /\ Placed

\* A challenge of the model is a sequence of steps.
LEMMA Challenges ==
    ASSUME NEW s \in UNION {[1..n -> Moves \cup {Center}] : n \in 1..MaxSteps}
    PROVE  s \in Seq(Asked) /\ s # <<>>
  <1>1. PICK n \in 1..MaxSteps : s \in [1..n -> Asked]
    BY DEF Asked
  <1>2. n \in Nat \ {0}
    BY <1>1, CaptureAssumption
  <1>3. s \in Seq(Asked)
    BY <1>1, <1>2, SeqDef
  <1>4. s # <<>>
    BY <1>1, <1>2
  <1> QED
    BY <1>3, <1>4

\* Before a challenge is captured.
LEMMA InitIInv == Init => IInv
  <1> SUFFICES ASSUME Init
               PROVE  IInv
    OBVIOUS
  <1>1. Types
    BY Challenges, EmptySeq DEF Init, Types
  <1>2. Waits /\ Placed
    BY DEF Init, Waits, Placed, FramesWaitForThePerson
  <1> QED
    BY <1>1, <1>2 DEF IInv

\* Entering a group there is, at the place the frames have come to.
LEMMA Entered ==
    ASSUME steps \in Seq(Asked), steps # <<>>, steps' = steps,
           NEW g \in Nat \ {0}, Enter(g),
           g <= Len(Plan) + 1,
           Len(frames') = Off(steps)[g],
           \A i \in 1..Len(frames') : frames'[i] = steps[i]
    PROVE  /\ Placed'
           /\ group' \in Nat \ {0} /\ taken' \in Nat /\ streak' = 0
           /\ run' \in {"prepare", "waiting", "handed"}
           /\ run' = "handed" <=> g = Len(Plan) + 1
  <1>1. Len(Plan) \in Nat \ {0} /\ Plan' = Plan
    BY Offsets DEF Plan
  <1>2. CASE g = Len(Plan) + 1
    BY <1>1, <1>2 DEF Enter, Placed
  <1>3. CASE g \in 1..Len(Plan)
    <2>1. Plan[g].count \in Nat \ {0} /\ Off(steps)[g] \in Nat
      BY <1>3, Offsets DEF Plan
    <2>2. run' \in {"prepare", "waiting"} /\ group' = g /\ taken' = 0 /\ streak' = 0
      BY <1>1, <1>3 DEF Enter
    <2> QED
      BY <1>1, <1>3, <2>1, <2>2 DEF Placed
  <1> QED
    BY <1>1, <1>2, <1>3

\* While a group has a frame to come, the challenge has a step without one; after
\* its last frame, the frames have come to the next group.
LEMMA Places ==
    ASSUME Types, Placed
    PROVE  /\ run \in {"prepare", "waiting", "framing"} =>
                  /\ Len(frames) < Len(steps) /\ frames # steps
                  /\ Step \in Asked /\ steps[Len(frames) + 1] = Step
                  /\ Plan[group].count \in Nat
           /\ run = "pause" =>
                  /\ Len(frames) = Off(steps)[group + 1]
                  /\ group = Len(Plan) <=> frames = steps
  <1>1. Len(steps) \in Nat /\ Len(Plan) \in Nat /\ Len(frames) \in Nat
    BY LenProperties, Offsets DEF Types, Plan
  <1>2. /\ Off(steps)[Len(Plan) + 1] = Len(steps)
        /\ \A g \in 1..Len(Plan) :
              /\ Plan[g].step \in Asked /\ Plan[g].count \in Nat \ {0}
              /\ Off(steps)[g] \in Nat /\ Off(steps)[g + 1] = Off(steps)[g] + Plan[g].count
              /\ Off(steps)[g + 1] <= Len(steps)
              /\ \A j \in 1..Plan[g].count : steps[Off(steps)[g] + j] = Plan[g].step
    BY Offsets DEF Types, Plan
  <1>3. ASSUME run \in {"prepare", "waiting", "framing"}
        PROVE  /\ Len(frames) < Len(steps) /\ frames # steps
               /\ Step \in Asked /\ steps[Len(frames) + 1] = Step
               /\ Plan[group].count \in Nat
    <2>1. /\ group \in 1..Len(Plan) /\ taken \in Nat /\ taken < Plan[group].count
          /\ Len(frames) = Off(steps)[group] + taken
      BY <1>3 DEF Types, Placed
    <2> DEFINE c == Plan[group].count
               o == Off(steps)[group]
    <2>2. c \in Nat \ {0} /\ o \in Nat /\ o + c <= Len(steps) /\ Step \in Asked
      BY <1>2, <2>1 DEF Step
    <2>3. /\ Len(frames) = o + taken /\ taken < c
          /\ \A j \in 1..c : steps[o + j] = Step
      BY <1>2, <2>1 DEF Step
    <2> HIDE DEF c, o
    <2>4. taken + 1 \in 1..c /\ o + (taken + 1) = Len(frames) + 1 /\ Len(frames) < Len(steps)
      <3>1. \A l, m, a, b, d \in Nat :
                l = a + b /\ b < d /\ a + d <= m => b + 1 \in 1..d /\ a + (b + 1) = l + 1 /\ l < m
        OBVIOUS
      <3>2. /\ Len(frames) \in Nat /\ Len(steps) \in Nat /\ o \in Nat /\ taken \in Nat /\ c \in Nat
            /\ Len(frames) = o + taken /\ taken < c /\ o + c <= Len(steps)
        BY <1>1, <2>1, <2>2, <2>3
      <3> QED
        BY <3>1, <3>2
    <2>5. steps[Len(frames) + 1] = Step
      BY <2>3, <2>4
    <2> QED
      BY <1>1, <2>2, <2>4, <2>5 DEF c
  <1>4. ASSUME run = "pause"
        PROVE  /\ Len(frames) = Off(steps)[group + 1]
               /\ group = Len(Plan) <=> frames = steps
    <2>1. /\ group \in 1..Len(Plan) /\ taken = Plan[group].count
          /\ Len(frames) = Off(steps)[group] + taken
          /\ \A i \in 1..Len(frames) : frames[i] = steps[i]
      BY <1>4 DEF Placed
    <2>2. Len(frames) = Off(steps)[group + 1]
      BY <1>2, <2>1
    <2>3. CASE group = Len(Plan)
      <3>1. Len(frames) = Len(steps)
        BY <1>2, <2>2, <2>3
      <3>2. frames \in Seq(Asked) /\ steps \in Seq(Asked)
        BY DEF Types
      <3>3. frames = steps
        BY <2>1, <3>1, <3>2, SeqEqual
      <3> QED
        BY <2>2, <2>3, <3>3
    <2>4. CASE group # Len(Plan)
      <3>1. group + 1 \in 1..Len(Plan)
        BY <1>1, <2>1, <2>4
      <3> DEFINE o == Off(steps)[group + 1]
                 c == Plan[group + 1].count
      <3>2. o \in Nat /\ c \in Nat \ {0} /\ o + c <= Len(steps) /\ Len(frames) = o
        BY <1>2, <2>2, <3>1
      <3> HIDE DEF o, c
      <3>3. Len(frames) # Len(steps)
        BY <1>1, <3>2
      <3> QED
        BY <2>2, <2>4, <3>3
    <2> QED
      BY <2>3, <2>4
  <1> QED
    BY <1>3, <1>4

\* The frame run() takes next is the one the challenge asks for next.
LEMMA TakeIInv == IInv /\ Take => IInv'
  <1> SUFFICES ASSUME IInv, Take
               PROVE  IInv'
    OBVIOUS
  <1> USE DEF IInv
  <1>1. /\ Len(frames) \in Nat /\ Len(waited) \in Nat
        /\ \A i \in 1..Len(waited) : waited[i] \in BOOLEAN
    BY LenProperties, ElementOfSeq DEF Types
  <1>2. /\ run = "framing" /\ Step \in Asked /\ steps[Len(frames) + 1] = Step
        /\ group \in 1..Len(Plan) /\ taken < Plan[group].count /\ Plan[group].count \in Nat
        /\ Off(steps)[group] \in Nat
    BY Places, Offsets DEF Take, Types, Placed, Plan
  <1>3. CASE mounted
    <2> DEFINE held == streak >= Steady
    <2>1. /\ frames' = Append(frames, Step) /\ waited' = Append(waited, held)
          /\ taken' = taken + 1 /\ streak' \in {streak, 0}
          /\ run' \in {"pause", "waiting", "framing"}
          /\ run' = "pause" <=> taken' = Plan[group].count
          /\ run' = "framing" /\ mode = "guided" => IsMove /\ streak' = streak
          /\ UNCHANGED <<steps, mounted, mode, group>>
      BY <1>3 DEF Take
    <2>2. held \in BOOLEAN
      OBVIOUS
    <2> HIDE DEF held
    <2>3. /\ frames' \in Seq(Asked) /\ Len(frames') = Len(frames) + 1
          /\ frames'[Len(frames) + 1] = Step /\ \A i \in 1..Len(frames) : frames'[i] = frames[i]
      BY <1>2, <2>1, AppendProperties DEF Types
    <2>4. /\ waited' \in Seq(BOOLEAN) /\ Len(waited') = Len(waited) + 1
          /\ waited'[Len(waited) + 1] = held /\ \A i \in 1..Len(waited) : waited'[i] = waited[i]
      BY <2>1, <2>2, AppendProperties DEF Types
    <2>5. Types'
      BY <2>1, <2>3, <2>4 DEF Types
    <2>6. Waits'
      <3>1. mode = "guided" => held
        BY <1>2 DEF Waits, held
      <3>2. FramesWaitForThePerson'
        BY <1>1, <2>1, <2>4, <3>1 DEF Waits, FramesWaitForThePerson
      <3>3. mode' = "guided" /\ run' = "framing" => streak' >= Steady
        BY <2>1, <3>1 DEF held
      <3> QED
        BY <3>2, <3>3 DEF Waits
    <2>7. Placed'
      <3>1. Plan' = Plan /\ Off(steps)' = Off(steps)
        BY <2>1 DEF Plan
      <3>2. Len(frames') = Off(steps)[group] + taken'
        <4>1. Len(frames) = Off(steps)[group] + taken /\ taken \in Nat
          BY <1>2 DEF Placed, Types
        <4>2. Len(frames') = Len(frames) + 1 /\ taken' = taken + 1
          BY <2>1, <2>3
        <4> DEFINE o == Off(steps)[group]
                   k == Len(frames)
        <4>3. k \in Nat /\ o \in Nat /\ k = o + taken
          BY <1>1, <1>2, <4>1
        <4> HIDE DEF o, k
        <4>4. k + 1 = o + (taken + 1)
          BY <4>1, <4>3
        <4> QED
          BY <4>2, <4>4 DEF o, k
      <3>3. \A i \in 1..Len(frames') : frames'[i] = steps[i]
        <4>1. \A i \in 1..Len(frames) : frames[i] = steps[i]
          BY <1>2 DEF Placed
        <4>2. \A i \in 1..Len(frames') : i \in 1..Len(frames) \/ i = Len(frames) + 1
          BY <1>1, <2>3
        <4> QED
          BY <1>2, <2>3, <4>1, <4>2
      <3>4. run' # "pause" => taken' < Plan[group].count
        <4>1. \A a, b \in Nat : a < b /\ a + 1 # b => a + 1 < b
          OBVIOUS
        <4>2. taken \in Nat /\ taken' = taken + 1
          BY <2>1 DEF Types
        <4> QED
          BY <1>2, <2>1, <4>1, <4>2
      <3> QED
        BY <1>2, <2>1, <3>1, <3>2, <3>3, <3>4 DEF Placed
    <2> QED
      BY <2>5, <2>6, <2>7
  <1>4. CASE ~mounted
    BY <1>4 DEF Take, Types, Waits, Placed, FramesWaitForThePerson, cam, head
  <1> QED
    BY <1>3, <1>4

\* A capture starts at its first step.
LEMMA StartIInv == IInv /\ Start => IInv'
  <1> SUFFICES ASSUME IInv, Start
               PROVE  IInv'
    OBVIOUS
  <1>1. /\ steps' = steps /\ mounted' = mounted /\ mode' \in {"guided", "timed"}
        /\ frames' = <<>> /\ waited' = <<>> /\ Enter(1)
    BY DEF Start
  <1>2. Off(steps)[1] = 0 /\ Len(Plan) \in Nat
    BY Offsets DEF IInv, Types, Plan
  <1>3. /\ Placed' /\ group' \in Nat \ {0} /\ taken' \in Nat /\ streak' = 0
        /\ run' \in {"prepare", "waiting", "handed"}
    BY <1>1, <1>2, Entered DEF IInv, Types
  <1>4. Types' /\ Waits'
    BY <1>1, <1>3, EmptySeq DEF IInv, Types, Waits, FramesWaitForThePerson
  <1> QED
    BY <1>3, <1>4 DEF IInv

\* The pause before a group goes on to its frames, or hands over the last.
LEMMA PauseIInv == IInv /\ Pause => IInv' /\ (run' = "handed" <=> frames = steps)
  <1> SUFFICES ASSUME IInv, Pause
               PROVE  IInv' /\ (run' = "handed" <=> frames = steps)
    OBVIOUS
  <1>1. /\ UNCHANGED <<steps, mounted, mode, frames, waited>> /\ Enter(group + 1)
        /\ run = "pause"
    BY DEF Pause
  <1>2. Len(frames) = Off(steps)[group + 1] /\ (group = Len(Plan) <=> frames = steps)
    BY <1>1, Places DEF IInv
  <1>3. group \in 1..Len(Plan) /\ \A i \in 1..Len(frames) : frames[i] = steps[i]
    BY <1>1 DEF IInv, Placed
  <1>4. Len(Plan) \in Nat
    BY Offsets DEF IInv, Types, Plan
  <1>5. group + 1 \in Nat \ {0} /\ group + 1 <= Len(Plan) + 1 /\ (group + 1 = Len(Plan) + 1 <=> group = Len(Plan))
    BY <1>3, <1>4
  <1>6. /\ Placed' /\ group' \in Nat \ {0} /\ taken' \in Nat /\ streak' = 0
        /\ run' \in {"prepare", "waiting", "handed"}
        /\ run' = "handed" <=> group + 1 = Len(Plan) + 1
    BY <1>1, <1>2, <1>3, <1>5, Entered DEF IInv, Types
  <1>7. Types' /\ Waits'
    BY <1>1, <1>6 DEF IInv, Types, Waits, FramesWaitForThePerson
  <1> QED
    BY <1>2, <1>5, <1>6, <1>7 DEF IInv

\* Any step of the system.
LEMMA NextIInv == IInv /\ [Next]_vars => IInv'
  <1> SUFFICES ASSUME IInv, [Next]_vars
               PROVE  IInv'
    OBVIOUS
  <1>1. ASSUME UNCHANGED <<steps, runvars>>, mounted' \in BOOLEAN
        PROVE  IInv'
    BY <1>1 DEF IInv, Types, Waits, Placed, FramesWaitForThePerson, Plan, runvars
  <1>2. ASSUME NEW o \in opening, Opened(o) \/ OpenedMatch(o) \/ OpenFails(o)
        PROVE  IInv'
    BY <1>1, <1>2 DEF Opened, OpenedMatch, OpenFails, IInv, Types
  <1>3. CASE PreferChanges \/ Unmount
    BY <1>1, <1>3 DEF PreferChanges, Unmount, IInv, Types
  <1>4. ASSUME NEW l \in loads, TrackerReady(l) \/ TrackerFails(l)
        PROVE  IInv'
    BY <1>1, <1>4 DEF TrackerReady, TrackerFails, IInv, Types
  <1>5. CASE Go
    BY <1>5 DEF Go, IInv, Types, Waits, Placed, FramesWaitForThePerson, Plan
  <1>6. CASE Poll
    BY <1>6 DEF Poll, IInv, Types, Waits, Placed, FramesWaitForThePerson, Plan
  <1>7. CASE TimesOut \/ TakeFails
    BY <1>7 DEF TimesOut, TakeFails, IInv, Types, Waits, Placed, FramesWaitForThePerson
  <1>8. CASE TimedWait
    BY <1>8 DEF TimedWait, IInv, Types, Waits, Placed, FramesWaitForThePerson, Plan
  <1>9. CASE UNCHANGED vars
    BY <1>1, <1>9 DEF vars, runvars, IInv, Types
  <1> QED
    BY <1>2, <1>3, <1>4, <1>5, <1>6, <1>7, <1>8, <1>9, TakeIInv, StartIInv, PauseIInv DEF Next

\* Every state a capture reaches.
LEMMA SpecIInv == Spec => []IInv
  BY InitIInv, NextIInv, PTL DEF Spec

\* With a head tracker no look is taken of a face not seen straight ahead, and no
\* movement before it was reached, however the readings fall (run, until).
THEOREM FramesTheorem == Spec => []FramesWaitForThePerson
  <1>1. IInv => FramesWaitForThePerson
    BY DEF IInv, Waits
  <1> QED
    BY <1>1, SpecIInv, PTL

-----------------------------------------------------------------------------
(* The promise.                                                            *)

\* Every step of a capture is a step, or none, of what it promises.
LEMMA PromiseStep == IInv /\ [Next]_vars => [Promise!Next]_(Promise!vars)
  <1> SUFFICES ASSUME IInv, [Next]_vars
               PROVE  [Promise!Next]_(Promise!vars)
    OBVIOUS
  <1> USE DEF Promise!vars, stage
  <1>1. ASSUME UNCHANGED <<steps, mounted, runvars>>
        PROVE  UNCHANGED Promise!vars
    BY <1>1 DEF runvars
  <1>2. ASSUME NEW o \in opening, Opened(o) \/ OpenedMatch(o) \/ OpenFails(o)
        PROVE  UNCHANGED Promise!vars
    BY <1>1, <1>2 DEF Opened, OpenedMatch, OpenFails
  <1>3. CASE PreferChanges
    BY <1>1, <1>3 DEF PreferChanges
  <1>4. CASE Unmount
    BY <1>4 DEF Unmount, runvars, Promise!Next, Promise!Leave
  <1>5. ASSUME NEW l \in loads, TrackerReady(l) \/ TrackerFails(l)
        PROVE  UNCHANGED Promise!vars
    BY <1>1, <1>5 DEF TrackerReady, TrackerFails
  <1>6. run \in {"prepare", "waiting", "framing"} => stage = "framing"
    BY Places DEF IInv
  <1>7. CASE Start
    <2>1. IInv' /\ frames' = <<>> /\ steps' = steps /\ steps # <<>> /\ run' # "failed" /\ run' # "idle"
      BY <1>7, StartIInv DEF Start, Enter, IInv, Types
    <2>2. run' # "handed"
      <3>1. Len(Plan) \in Nat \ {0}
        BY Offsets DEF IInv, Types, Plan
      <3> QED
        BY <1>7, <3>1 DEF Start, Enter
    <2>3. stage' = "framing" /\ stage \in {"ready", "failed"} /\ mounted /\ UNCHANGED mounted
      BY <1>7, <2>1, <2>2 DEF Start
    <2> QED
      BY <2>3 DEF Promise!Next, Promise!Start
  <1>8. CASE Go \/ Poll \/ TimedWait
    BY <1>8 DEF Go, Poll, TimedWait
  <1>9. CASE TimesOut \/ TakeFails
    BY <1>6, <1>9 DEF TimesOut, TakeFails, Promise!Next, Promise!Fail
  <1>10. CASE Take
    <2>1. stage = "framing" /\ UNCHANGED <<mounted, steps>>
      BY <1>6, <1>10 DEF Take
    <2>2. CASE mounted
      <3>1. run' \in {"pause", "waiting", "framing"}
        BY <1>10, <2>2 DEF Take
      <3>2. stage' \in {"settling", "framing"}
        BY <3>1
      <3> QED
        BY <2>1, <2>2, <3>2 DEF Promise!Next, Promise!LastFrame
    <2>3. CASE ~mounted
      BY <1>10, <2>1, <2>3 DEF Take, Promise!Next, Promise!Fail
    <2> QED
      BY <2>2, <2>3
  <1>11. CASE Pause
    <2>1. run' = "handed" <=> frames = steps
      BY <1>11, PauseIInv
    <2>2. run' \in {"handed", "prepare", "waiting"} /\ run = "pause" /\ UNCHANGED <<mounted, steps, frames>>
      BY <1>11 DEF Pause, Enter
    <2> QED
      BY <2>1, <2>2 DEF Promise!Next, Promise!Hand
  <1>12. CASE UNCHANGED vars
    BY <1>1, <1>12 DEF vars, runvars
  <1> QED
    BY <1>2, <1>3, <1>4, <1>5, <1>7, <1>8, <1>9, <1>10, <1>11, <1>12 DEF Next

\* For every challenge the capture hands its frames over once, when every step
\* has its frame, all of them taken while it was on the screen: what the kiosk's
\* visits are built on (run, groups; CaptureRun).
THEOREM PromiseTheorem == Spec => KeepsItsPromise
  <1>1. Init => Promise!Init
    BY DEF Init, Promise!Init, stage
  <1> QED
    BY <1>1, SpecIInv, PromiseStep, PTL DEF Spec, KeepsItsPromise, Promise!Spec
==============================================================================

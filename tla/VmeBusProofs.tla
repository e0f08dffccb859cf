---------------------------- MODULE VmeBusProofs ----------------------------
(***************************************************************************)
(* Theorems about VmeBus, for loops of any number of turns.  What a driver *)
(* function has left to do sets up the accesses it has left: that a step   *)
(* keeps this is shown for any sequence of calls, and that it holds at the *)
(* beginning of each driver function from how the function is put together.*)
(***************************************************************************)
EXTENDS VmeBus, SequenceTheorems, TLAPS

\* A call on the interface is a record with these fields.
LEMMA StepsType ==
  /\ \A a \in AMs : SetAm(a) \in Steps
  /\ \A d \in {D16, D32} : SetDmode(d) \in Steps
  /\ SetBlt(TRUE) \in Steps /\ SetBlt(FALSE) \in Steps
  /\ Save \in Steps /\ Restore \in Steps
  /\ \A a \in AMs, d \in {D16, D32} : Single(a, d) \in Steps /\ Block(a, d) \in Steps
  BY DEF SetAm, SetDmode, SetBlt, Save, Restore, Single, Block, Step, Steps, AMs,
         Ops, D16, D32

\* The fields of the calls the drivers make.
LEMMA StepsFields ==
  /\ \A a : SetAm(a).op = "set_am" /\ SetAm(a).am = a
  /\ \A d : SetDmode(d).op = "set_dmode" /\ SetDmode(d).bytes = d
  /\ SetBlt(TRUE).op = "set_blt" /\ SetBlt(TRUE).on
  /\ SetBlt(FALSE).op = "set_blt" /\ ~SetBlt(FALSE).on
  /\ Save.op = "save" /\ Restore.op = "restore"
  /\ \A a, d : /\ Single(a, d).op = "single" /\ Single(a, d).am = a
               /\ Single(a, d).bytes = d
  /\ \A a, d : /\ Block(a, d).op = "block" /\ Block(a, d).am = a
               /\ Block(a, d).bytes = d
  BY DEF SetAm, SetDmode, SetBlt, Save, Restore, Single, Block, Step

\* What is left after the first call, place by place.
LEMMA TailElements ==
  ASSUME NEW q \in Seq(Steps), q # <<>>
  PROVE  /\ Tail(q) \in Seq(Steps)
         /\ Len(q) \in Nat \ {0}
         /\ Len(Tail(q)) = Len(q) - 1
         /\ Head(q) = q[1]
         /\ \A k \in 1..Len(Tail(q)) : k \in Nat /\ k + 1 \in 1..Len(q) /\ Tail(q)[k] = q[k + 1]
  OBVIOUS

\* Two sequences of calls one after the other, place by place.
LEMMA ConcatElements ==
  ASSUME NEW s \in Seq(Steps), NEW t \in Seq(Steps)
  PROVE  /\ s \o t \in Seq(Steps)
         /\ Len(s) \in Nat /\ Len(t) \in Nat /\ Len(s \o t) = Len(s) + Len(t)
         /\ \A k \in 1..Len(s) : (s \o t)[k] = s[k]
         /\ \A k \in 1..Len(t) : (s \o t)[k + Len(s)] = t[k]
         /\ \A k \in (Len(s) + 1)..Len(s \o t) :
              (s \o t)[k] = t[k - Len(s)] /\ k - Len(s) \in 1..Len(t)
  OBVIOUS

-----------------------------------------------------------------------------
(***************************************************************************)
(* A step keeps what is said of the accesses ahead.                        *)
(***************************************************************************)
\* The address modifier foreseen stays foreseen.
LEMMA AmAtStep ==
  ASSUME NEW q \in Seq(Steps), q # <<>>, NEW a0, NEW a1,
         a1 = IF q[1].op = "set_am" THEN q[1].am ELSE a0,
         NEW k \in Nat, k >= 1, k + 1 \in 1..Len(q), NEW a, AmAt(q, a0, k + 1, a)
  PROVE  AmAt(Tail(q), a1, k, a)
<1>1. \A i \in 1..(k - 1) : Tail(q)[i] = q[i + 1] /\ i + 1 \in 1..k
  OBVIOUS
<1>2. CASE \E j \in 1..k : /\ q[j].op = "set_am" /\ q[j].am = a
                           /\ \A i \in (j + 1)..k : q[i].op # "set_am"
  <2>1. PICK j \in 1..k : /\ q[j].op = "set_am" /\ q[j].am = a
                          /\ \A i \in (j + 1)..k : q[i].op # "set_am"
    BY <1>2
  <2>2. CASE j = 1
    <3>1. a1 = a
      BY <2>1, <2>2
    <3>2. \A i \in 1..(k - 1) : Tail(q)[i].op # "set_am"
      BY <1>1, <2>1, <2>2
    <3> QED  BY <3>1, <3>2 DEF AmAt
  <2>3. CASE j # 1
    <3>1. j - 1 \in 1..(k - 1) /\ Tail(q)[j - 1] = q[j]
      BY <1>1, <2>3
    <3>2. \A i \in ((j - 1) + 1)..(k - 1) : Tail(q)[i].op # "set_am"
      BY <1>1, <2>1, <2>3
    <3> QED  BY <2>1, <3>1, <3>2 DEF AmAt
  <2> QED  BY <2>2, <2>3
<1>3. CASE a0 = a /\ \A i \in 1..k : q[i].op # "set_am"
  <2>1. a1 = a
    BY <1>3
  <2>2. \A i \in 1..(k - 1) : Tail(q)[i].op # "set_am"
    BY <1>1, <1>3
  <2> QED  BY <2>1, <2>2 DEF AmAt
<1>4. (k + 1) - 1 = k
  OBVIOUS
<1> QED  BY ONLY <1>2, <1>3, <1>4, AmAt(q, a0, k + 1, a) DEF AmAt

\* So does the data width, as long as it is not restored before.
LEMMA WidthHeldStep ==
  ASSUME NEW q \in Seq(Steps), q # <<>>, NEW d0, NEW d1,
         q[1].op = "set_dmode" => d1 = q[1].bytes,
         ~SetsWidth(q[1]) => d1 = d0,
         NEW k \in Nat, k >= 1, k + 1 \in 1..Len(q), NEW d, WidthHeld(q, d0, k + 1, d)
  PROVE  WidthHeld(Tail(q), d1, k, d)
<1>1. \A i \in 1..(k - 1) : Tail(q)[i] = q[i + 1] /\ i + 1 \in 1..k
  OBVIOUS
<1>2. CASE \E j \in 1..k : /\ q[j].op = "set_dmode" /\ q[j].bytes = d
                           /\ \A i \in (j + 1)..k : ~SetsWidth(q[i])
  <2>1. PICK j \in 1..k : /\ q[j].op = "set_dmode" /\ q[j].bytes = d
                          /\ \A i \in (j + 1)..k : ~SetsWidth(q[i])
    BY <1>2
  <2>2. CASE j = 1
    <3>1. d1 = d
      BY <2>1, <2>2
    <3>2. \A i \in 1..(k - 1) : ~SetsWidth(Tail(q)[i])
      BY <1>1, <2>1, <2>2
    <3> QED  BY <3>1, <3>2 DEF WidthHeld
  <2>3. CASE j # 1
    <3>1. j - 1 \in 1..(k - 1) /\ Tail(q)[j - 1] = q[j]
      BY <1>1, <2>3
    <3>2. \A i \in ((j - 1) + 1)..(k - 1) : ~SetsWidth(Tail(q)[i])
      BY <1>1, <2>1, <2>3
    <3> QED  BY <2>1, <3>1, <3>2 DEF WidthHeld
  <2> QED  BY <2>2, <2>3
<1>3. CASE d0 = d /\ \A i \in 1..k : ~SetsWidth(q[i])
  <2>1. d1 = d
    BY <1>3
  <2>2. \A i \in 1..(k - 1) : ~SetsWidth(Tail(q)[i])
    BY <1>1, <1>3
  <2> QED  BY <2>1, <2>2 DEF WidthHeld
<1> QED  BY <1>2, <1>3 DEF WidthHeld

\* So does the width that will be restored.
LEMMA WidthSavedStep ==
  ASSUME NEW q \in Seq(Steps), q # <<>>, NEW d0, NEW d1, NEW c0, NEW c1,
         q[1].op = "set_dmode" => d1 = q[1].bytes,
         ~SetsWidth(q[1]) => d1 = d0,
         q[1].op = "save" => c1 # <<>> /\ Head(c1) = d0,
         ~MovesStack(q[1]) => c1 = c0,
         NEW k \in Nat, k >= 1, k + 1 \in 1..Len(q), NEW d,
         WidthSaved(q, d0, c0, k + 1, d)
  PROVE  WidthSaved(Tail(q), d1, c1, k, d)
<1>1. \A i \in 1..(k - 1) : Tail(q)[i] = q[i + 1] /\ i + 1 \in 1..k
  OBVIOUS
<1>2. CASE \E j \in 1..k : /\ q[j].op = "save" /\ WidthHeld(q, d0, j, d)
                           /\ \A i \in (j + 1)..k : ~MovesStack(q[i])
  <2>1. PICK j \in 1..k : /\ q[j].op = "save" /\ WidthHeld(q, d0, j, d)
                          /\ \A i \in (j + 1)..k : ~MovesStack(q[i])
    BY <1>2
  <2>2. CASE j = 1
    <3>1. d0 = d
      BY <2>1, <2>2 DEF WidthHeld
    <3>2. c1 # <<>> /\ Head(c1) = d
      BY <2>1, <2>2, <3>1
    <3>3. \A i \in 1..(k - 1) : ~MovesStack(Tail(q)[i])
      BY <1>1, <2>1, <2>2
    <3> QED  BY <3>2, <3>3 DEF WidthSaved
  <2>3. CASE j # 1
    <3>1. j - 1 \in 1..(k - 1) /\ Tail(q)[j - 1] = q[j]
      BY <1>1, <2>3
    <3>2. j - 1 \in Nat /\ j - 1 >= 1 /\ (j - 1) + 1 = j /\ (j - 1) + 1 \in 1..Len(q)
      BY <2>3
    <3>3. WidthHeld(q, d0, (j - 1) + 1, d)
      BY <2>1, <3>2
    <3>4. WidthHeld(Tail(q), d1, j - 1, d)
      BY <3>2, <3>3, WidthHeldStep
    <3>5. \A i \in ((j - 1) + 1)..(k - 1) : ~MovesStack(Tail(q)[i])
      BY <1>1, <2>1, <2>3
    <3> QED  BY <2>1, <3>1, <3>4, <3>5 DEF WidthSaved
  <2> QED  BY <2>2, <2>3
<1>3. CASE /\ c0 # <<>> /\ Head(c0) = d
           /\ \A i \in 1..k : ~MovesStack(q[i])
  <2>1. c1 # <<>> /\ Head(c1) = d
    BY <1>3
  <2>2. \A i \in 1..(k - 1) : ~MovesStack(Tail(q)[i])
    BY <1>1, <1>3
  <2> QED  BY <2>1, <2>2 DEF WidthSaved
<1>4. (k + 1) - 1 = k
  OBVIOUS
<1> QED  BY ONLY <1>2, <1>3, <1>4, WidthSaved(q, d0, c0, k + 1, d) DEF WidthSaved

\* And so the width at an access, set or restored.
LEMMA WidthAtStep ==
  ASSUME NEW q \in Seq(Steps), q # <<>>, NEW d0, NEW d1, NEW c0, NEW c1,
         q[1].op = "set_dmode" => d1 = q[1].bytes,
         q[1].op = "restore" => (c0 # <<>> => d1 = Head(c0)),
         ~SetsWidth(q[1]) => d1 = d0,
         q[1].op = "save" => c1 # <<>> /\ Head(c1) = d0,
         ~MovesStack(q[1]) => c1 = c0,
         NEW k \in Nat, k >= 1, k + 1 \in 1..Len(q), NEW d,
         WidthAt(q, d0, c0, k + 1, d)
  PROVE  WidthAt(Tail(q), d1, c1, k, d)
<1>1. \A i \in 1..(k - 1) : Tail(q)[i] = q[i + 1] /\ i + 1 \in 1..k
  OBVIOUS
<1>2. CASE WidthHeld(q, d0, k + 1, d)
  BY <1>2, WidthHeldStep DEF WidthAt
<1>3. CASE \E j \in 1..k : /\ q[j].op = "restore" /\ WidthSaved(q, d0, c0, j, d)
                           /\ \A i \in (j + 1)..k : ~SetsWidth(q[i])
  <2>1. PICK j \in 1..k : /\ q[j].op = "restore" /\ WidthSaved(q, d0, c0, j, d)
                          /\ \A i \in (j + 1)..k : ~SetsWidth(q[i])
    BY <1>3
  <2>2. CASE j = 1
    <3>1. c0 # <<>> /\ Head(c0) = d
      BY <2>1, <2>2 DEF WidthSaved
    <3>2. d1 = d
      BY <2>1, <2>2, <3>1
    <3>3. \A i \in 1..(k - 1) : ~SetsWidth(Tail(q)[i])
      BY <1>1, <2>1, <2>2
    <3> QED  BY <3>2, <3>3 DEF WidthAt, WidthHeld
  <2>3. CASE j # 1
    <3>1. j - 1 \in 1..(k - 1) /\ Tail(q)[j - 1] = q[j]
      BY <1>1, <2>3
    <3>2. j - 1 \in Nat /\ j - 1 >= 1 /\ (j - 1) + 1 = j /\ (j - 1) + 1 \in 1..Len(q)
      BY <2>3
    <3>3. WidthSaved(q, d0, c0, (j - 1) + 1, d)
      BY <2>1, <3>2
    <3>4. WidthSaved(Tail(q), d1, c1, j - 1, d)
      BY <3>2, <3>3, WidthSavedStep
    <3>5. \A i \in ((j - 1) + 1)..(k - 1) : ~SetsWidth(Tail(q)[i])
      BY <1>1, <2>1, <2>3
    <3> QED  BY <2>1, <3>1, <3>4, <3>5 DEF WidthAt
  <2> QED  BY <2>2, <2>3
<1>4. (k + 1) - 1 = k
  OBVIOUS
<1> QED  BY ONLY <1>2, <1>3, <1>4, WidthAt(q, d0, c0, k + 1, d) DEF WidthAt

\* All accesses ahead stay set up.
LEMMA AccessesSetStep ==
  ASSUME NEW q \in Seq(Steps), q # <<>>, NEW a0, NEW a1, NEW d0, NEW d1, NEW c0, NEW c1,
         a1 = IF q[1].op = "set_am" THEN q[1].am ELSE a0,
         q[1].op = "set_dmode" => d1 = q[1].bytes,
         q[1].op = "restore" => (c0 # <<>> => d1 = Head(c0)),
         ~SetsWidth(q[1]) => d1 = d0,
         q[1].op = "save" => c1 # <<>> /\ Head(c1) = d0,
         ~MovesStack(q[1]) => c1 = c0,
         AccessesSet(q, a0, d0, c0)
  PROVE  AccessesSet(Tail(q), a1, d1, c1)
<1> SUFFICES ASSUME NEW k \in 1..Len(Tail(q)), IsAccess(Tail(q)[k])
             PROVE  /\ AmAt(Tail(q), a1, k, Tail(q)[k].am)
                    /\ WidthAt(Tail(q), d1, c1, k, Tail(q)[k].bytes)
  BY DEF AccessesSet
<1>1. k \in Nat /\ k >= 1 /\ k + 1 \in 1..Len(q) /\ Tail(q)[k] = q[k + 1]
  BY TailElements
<1>2. AmAt(q, a0, k + 1, Tail(q)[k].am) /\ WidthAt(q, d0, c0, k + 1, Tail(q)[k].bytes)
  BY <1>1 DEF AccessesSet
<1> QED  BY <1>1, <1>2, AmAtStep, WidthAtStep

\* Restores ahead stay paired with saves.
LEMMA PairedStep ==
  ASSUME NEW q \in Seq(Steps), q # <<>>, NEW c0, NEW c1,
         q[1].op = "save" => c1 # <<>>,
         ~MovesStack(q[1]) => c1 = c0,
         Paired(q, c0)
  PROVE  Paired(Tail(q), c1)
<1> SUFFICES ASSUME NEW k \in 1..Len(Tail(q)), Tail(q)[k].op = "restore"
             PROVE  \/ \E j \in 1..(k - 1) :
                         /\ Tail(q)[j].op = "save"
                         /\ \A i \in (j + 1)..(k - 1) : ~MovesStack(Tail(q)[i])
                    \/ c1 # <<>> /\ \A i \in 1..(k - 1) : ~MovesStack(Tail(q)[i])
  BY DEF Paired
<1>1. k \in Nat /\ k >= 1 /\ k + 1 \in 1..Len(q) /\ Tail(q)[k] = q[k + 1]
  BY TailElements
<1>2. \A i \in 1..(k - 1) : Tail(q)[i] = q[i + 1] /\ i + 1 \in 1..k
  OBVIOUS
<1>3. (k + 1) - 1 = k
  BY <1>1
<1>4. CASE \E j \in 1..k : q[j].op = "save" /\ \A i \in (j + 1)..k : ~MovesStack(q[i])
  <2>1. PICK j \in 1..k : q[j].op = "save" /\ \A i \in (j + 1)..k : ~MovesStack(q[i])
    BY <1>4
  <2>2. CASE j = 1
    BY <1>2, <2>1, <2>2
  <2>3. CASE j # 1
    <3>1. j - 1 \in 1..(k - 1) /\ Tail(q)[j - 1] = q[j]
      BY <1>2, <2>3
    <3>2. \A i \in ((j - 1) + 1)..(k - 1) : ~MovesStack(Tail(q)[i])
      BY <1>2, <2>1, <2>3
    <3> QED  BY <2>1, <3>1, <3>2
  <2> QED  BY <2>2, <2>3
<1>5. CASE c0 # <<>> /\ \A i \in 1..k : ~MovesStack(q[i])
  BY <1>1, <1>2, <1>5
<1>6. \/ \E j \in 1..k : q[j].op = "save" /\ \A i \in (j + 1)..k : ~MovesStack(q[i])
      \/ c0 # <<>> /\ \A i \in 1..k : ~MovesStack(q[i])
  BY <1>1, <1>3 DEF Paired
<1> QED  BY <1>4, <1>5, <1>6

\* A call that sets no mode leaves the one that will ahead.
LEMMA ModeFirstStep ==
  ASSUME NEW q \in Seq(Steps), q # <<>>, ModeFirst(q),
         q[1].op # "set_am", ~SetsWidth(q[1])
  PROVE  ModeFirst(Tail(q))
<1> SUFFICES ASSUME NEW k \in 1..Len(Tail(q)), IsAccess(Tail(q)[k])
             PROVE  \E j \in 1..(k - 1) :
                      Tail(q)[j].op = "set_am" \/ SetsWidth(Tail(q)[j])
  BY DEF ModeFirst
<1>1. k \in Nat /\ k >= 1 /\ k + 1 \in 1..Len(q) /\ Tail(q)[k] = q[k + 1]
  BY TailElements
<1>2. PICK j \in 1..k : q[j].op = "set_am" \/ SetsWidth(q[j])
  <2>1. (k + 1) - 1 = k
    BY <1>1
  <2> QED  BY <1>1, <2>1 DEF ModeFirst
<1>3. j - 1 \in 1..(k - 1) /\ Tail(q)[j - 1] = q[j]
  BY <1>1, <1>2
<1> QED  BY <1>2, <1>3

\* Block transfers end before the function does.
LEMMA BltOffStep ==
  ASSUME NEW q \in Seq(Steps), q # <<>>, NEW b0, NEW b1, BltOff(q, b0),
         b1 = IF q[1].op = "set_blt" THEN q[1].on ELSE b0
  PROVE  BltOff(Tail(q), b1)
<1> DEFINE r == Tail(q)
<1>0. /\ r \in Seq(Steps)
      /\ Len(q) \in Nat \ {0} /\ Len(r) = Len(q) - 1
      /\ \A k \in 1..Len(r) : r[k] = q[k + 1] /\ k + 1 \in 1..Len(q)
      /\ 1 \in 1..Len(q)
  BY TailElements
<1> HIDE DEF r
<1>1. CASE ~b0 /\ \A k \in 1..Len(q) : q[k].op # "set_blt"
  <2>1. b1 = b0
    BY <1>0, <1>1
  <2>2. \A k \in 1..Len(r) : r[k].op # "set_blt"
    BY <1>0, <1>1
  <2> QED  BY <1>1, <2>1, <2>2 DEF BltOff, r
<1>2. CASE /\ q[Len(q)].op = "set_blt" /\ ~q[Len(q)].on
           /\ \A k \in 1..Len(q) : q[k].op # "single"
  <2>1. CASE Len(q) = 1
    <3>1. ~b1
      BY <1>2, <2>1
    <3>2. \A k \in 1..Len(r) : r[k].op # "set_blt"
      BY ONLY <1>0, <2>1
    <3> QED  BY <3>1, <3>2 DEF BltOff, r
  <2>2. CASE Len(q) # 1
    <3>1. Len(r) \in 1..Len(r) /\ Len(r) + 1 = Len(q)
      BY ONLY <1>0, <2>2
    <3>2. r # <<>> /\ r[Len(r)] = q[Len(q)]
      BY ONLY <1>0, <3>1
    <3>3. \A k \in 1..Len(r) : r[k].op # "single"
      BY <1>0, <1>2
    <3> QED  BY <1>2, <3>2, <3>3 DEF BltOff, r
  <2> QED  BY <2>1, <2>2
<1> QED  BY <1>1, <1>2 DEF BltOff

-----------------------------------------------------------------------------
(***************************************************************************)
(* Driver functions that set up all their accesses themselves, whatever    *)
(* they are called in: "none", 0 and <<>> are no state of the interface.   *)
(***************************************************************************)
SelfSet(q) ==
  \A k \in 1..Len(q) : IsAccess(q[k]) =>
    AmAt(q, "none", k, q[k].am) /\ WidthHeld(q, 0, k, q[k].bytes)

Fresh(q) ==
  /\ q \in Seq(Steps)
  /\ SelfSet(q)
  /\ Paired(q, <<>>)
  /\ \A k \in 1..Len(q) : q[k].op # "set_blt"

\* What a driver function relies on at its call.
Ready(q) ==
  /\ q \in Seq(Steps)
  /\ \A a0, d0, c0 : AccessesSet(q, a0, d0, c0) /\ Paired(q, c0)
  /\ ModeFirst(q)
  /\ BltOff(q, FALSE)

\* Such a function may be called in any state of the interface.
LEMMA FreshReady ==
  ASSUME NEW q, Fresh(q)
  PROVE  Ready(q)
<1>1. ASSUME NEW k \in 1..Len(q), IsAccess(q[k]), NEW a0, NEW d0, NEW c0
      PROVE  AmAt(q, a0, k, q[k].am) /\ WidthAt(q, d0, c0, k, q[k].bytes)
  <2>1. q[k] \in Steps
    BY <1>1 DEF Fresh
  <2>2. q[k].am # "none" /\ q[k].bytes # 0
    BY <2>1 DEF Steps, AMs, D16, D32
  <2>3. AmAt(q, "none", k, q[k].am) /\ WidthHeld(q, 0, k, q[k].bytes)
    BY <1>1 DEF Fresh, SelfSet
  <2>4. AmAt(q, a0, k, q[k].am)
    BY <2>2, <2>3 DEF AmAt
  <2>5. WidthHeld(q, d0, k, q[k].bytes)
    BY <2>2, <2>3 DEF WidthHeld
  <2> QED  BY <2>4, <2>5 DEF WidthAt
<1>2. \A c0 : Paired(q, c0)
  BY DEF Fresh, Paired
<1>3. ModeFirst(q)
  <2> SUFFICES ASSUME NEW k \in 1..Len(q), IsAccess(q[k])
               PROVE  \E j \in 1..(k - 1) : q[j].op = "set_am"
    BY DEF ModeFirst
  <2>1. q[k] \in Steps
    BY DEF Fresh
  <2>2. q[k].am # "none"
    BY <2>1 DEF Steps, AMs
  <2>3. AmAt(q, "none", k, q[k].am)
    BY DEF Fresh, SelfSet
  <2> QED  BY <2>2, <2>3 DEF AmAt
<1>4. BltOff(q, FALSE)
  BY DEF Fresh, BltOff
<1> QED  BY <1>1, <1>2, <1>3, <1>4 DEF Ready, AccessesSet, Fresh

\* One after the other they still are.
LEMMA FreshConcat ==
  ASSUME NEW s, NEW t, Fresh(s), Fresh(t)
  PROVE  Fresh(s \o t)
<1> DEFINE q == s \o t
           n == Len(s)
<1>1. /\ q \in Seq(Steps)
      /\ n \in Nat /\ Len(t) \in Nat /\ Len(q) = n + Len(t)
      /\ \A k \in 1..n : q[k] = s[k]
      /\ \A k \in 1..Len(t) : q[k + n] = t[k]
      /\ \A k \in (n + 1)..Len(q) : q[k] = t[k - n] /\ k - n \in 1..Len(t)
  BY ConcatElements DEF Fresh
<1> HIDE DEF q
<1> HIDE DEF n
<1>2. ASSUME NEW k \in 1..n, IsAccess(q[k])
      PROVE  AmAt(q, "none", k, q[k].am) /\ WidthHeld(q, 0, k, q[k].bytes)
  <2>1. AmAt(s, "none", k, q[k].am) /\ WidthHeld(s, 0, k, q[k].bytes)
    BY <1>1, <1>2 DEF Fresh, SelfSet, n
  <2>2. n \in Nat /\ \A i \in 1..(k - 1) : q[i] = s[i]
    BY <1>1
  <2>3. AmAt(q, "none", k, q[k].am)
    BY ONLY <1>2, <2>1, <2>2 DEF AmAt
  <2>4. WidthHeld(q, 0, k, q[k].bytes)
    BY ONLY <1>2, <2>1, <2>2 DEF WidthHeld
  <2> QED  BY <2>3, <2>4
<1>3. ASSUME NEW k \in (n + 1)..Len(q), IsAccess(q[k])
      PROVE  AmAt(q, "none", k, q[k].am) /\ WidthHeld(q, 0, k, q[k].bytes)
  <2> DEFINE m == k - n
  <2>1. m \in 1..Len(t) /\ q[k] = t[m] /\ k = m + n
    BY <1>1
  <2>2. q[k] \in Steps
    BY <2>1 DEF Fresh
  <2>3. q[k].am # "none" /\ q[k].bytes # 0
    BY <2>2 DEF Steps, AMs, D16, D32
  <2>4. AmAt(t, "none", m, q[k].am) /\ WidthHeld(t, 0, m, q[k].bytes)
    BY <1>3, <2>1 DEF Fresh, SelfSet
  <2> HIDE DEF m
  <2>0. n \in Nat /\ m \in Nat /\ k = m + n
    BY <1>1, <2>1
  <2>5. \A i \in (n + 1)..(k - 1) : q[i] = t[i - n] /\ i - n \in 1..(m - 1)
    BY <1>1, <2>1
  <2>6. AmAt(q, "none", k, q[k].am)
    <3>1. PICK j \in 1..(m - 1) : /\ t[j].op = "set_am" /\ t[j].am = q[k].am
                                  /\ \A i \in (j + 1)..(m - 1) : t[i].op # "set_am"
      BY <2>3, <2>4 DEF AmAt
    <3>2. j + n \in 1..(k - 1) /\ q[j + n] = t[j]
      BY <1>1, <2>1, <3>1
    <3>3. \A i \in ((j + n) + 1)..(k - 1) :
            i \in (n + 1)..(k - 1) /\ i - n \in (j + 1)..(m - 1)
      BY ONLY <2>0, <3>1
    <3>4. \A i \in ((j + n) + 1)..(k - 1) : q[i].op # "set_am"
      BY <2>5, <3>1, <3>3
    <3> QED  BY <3>1, <3>2, <3>4 DEF AmAt
  <2>7. WidthHeld(q, 0, k, q[k].bytes)
    <3>1. PICK j \in 1..(m - 1) : /\ t[j].op = "set_dmode" /\ t[j].bytes = q[k].bytes
                                  /\ \A i \in (j + 1)..(m - 1) : ~SetsWidth(t[i])
      BY <2>3, <2>4 DEF WidthHeld
    <3>2. j + n \in 1..(k - 1) /\ q[j + n] = t[j]
      BY <1>1, <2>1, <3>1
    <3>3. \A i \in ((j + n) + 1)..(k - 1) :
            i \in (n + 1)..(k - 1) /\ i - n \in (j + 1)..(m - 1)
      BY ONLY <2>0, <3>1
    <3>4. \A i \in ((j + n) + 1)..(k - 1) : ~SetsWidth(q[i])
      BY <2>5, <3>1, <3>3
    <3> QED  BY <3>1, <3>2, <3>4 DEF WidthHeld
  <2> QED  BY <2>6, <2>7
<1>4. SelfSet(q)
  BY <1>1, <1>2, <1>3 DEF SelfSet
<1>5. Paired(q, <<>>)
  <2> SUFFICES ASSUME NEW k \in 1..Len(q), q[k].op = "restore"
               PROVE  \E j \in 1..(k - 1) :
                        q[j].op = "save" /\ \A i \in (j + 1)..(k - 1) : ~MovesStack(q[i])
    BY DEF Paired
  <2>1. CASE k \in 1..n
    <3>1. PICK j \in 1..(k - 1) :
            s[j].op = "save" /\ \A i \in (j + 1)..(k - 1) : ~MovesStack(s[i])
      BY <1>1, <2>1 DEF Fresh, Paired, n
    <3> QED  BY <1>1, <2>1, <3>1
  <2>2. CASE k \in (n + 1)..Len(q)
    <3> DEFINE m == k - n
    <3>1. m \in 1..Len(t) /\ q[k] = t[m] /\ k = m + n
      BY <1>1, <2>2
    <3> HIDE DEF m
    <3>2. PICK j \in 1..(m - 1) :
            t[j].op = "save" /\ \A i \in (j + 1)..(m - 1) : ~MovesStack(t[i])
      BY <3>1 DEF Fresh, Paired
    <3>3. \A i \in (n + 1)..(k - 1) : q[i] = t[i - n] /\ i - n \in 1..(m - 1)
      BY <1>1, <3>1
    <3>4. j + n \in 1..(k - 1) /\ q[j + n] = t[j]
      BY <1>1, <3>1, <3>2
    <3>5. \A i \in ((j + n) + 1)..(k - 1) : ~MovesStack(q[i])
      BY <1>1, <3>1, <3>2, <3>3
    <3> QED  BY <3>2, <3>4, <3>5
  <2> QED  BY <1>1, <2>1, <2>2
<1>6. \A k \in 1..Len(q) : q[k].op # "set_blt"
  <2> SUFFICES ASSUME NEW k \in 1..Len(q) PROVE q[k].op # "set_blt"
    OBVIOUS
  <2>1. CASE k \in 1..n
    BY <1>1, <2>1 DEF Fresh, n
  <2>2. CASE k \in (n + 1)..Len(q)
    BY <1>1, <2>2 DEF Fresh
  <2> QED  BY <1>1, <2>1, <2>2
<1> QED  BY <1>1, <1>4, <1>5, <1>6 DEF Fresh, q

-----------------------------------------------------------------------------
(***************************************************************************)
(* The parts the driver functions are made of.                             *)
(***************************************************************************)
\* n turns of a loop.
LEMMA TimesElements ==
  ASSUME NEW n \in Nat, NEW s \in Steps
  PROVE  /\ Times(n, s) \in Seq(Steps)
         /\ Len(Times(n, s)) = n
         /\ \A k \in 1..n : Times(n, s)[k] = s
<1>1. Times(n, s) \in [1..n -> Steps]
  BY DEF Times
<1>2. Times(n, s) \in Seq(Steps)
  BY <1>1, SeqDef
<1>3. Len(Times(n, s)) = n
  BY <1>1, <1>2, LenProperties DEF Times
<1> QED  BY <1>2, <1>3 DEF Times

\* Space and width, in either order, and single transfers there.
LEMMA BurstFresh ==
  ASSUME NEW q \in Seq(Steps), NEW a, NEW d, NEW i \in 1..2, NEW h \in 1..2, i # h,
         Len(q) >= 2, q[i] = SetAm(a), q[h] = SetDmode(d),
         \A k \in 3..Len(q) : q[k] = Single(a, d)
  PROVE  Fresh(q) /\ \A k \in 1..Len(q) : ~MovesStack(q[k])
<1>1. /\ q[i].op = "set_am" /\ q[i].am = a
      /\ q[h].op = "set_dmode" /\ q[h].bytes = d
      /\ \A k \in 3..Len(q) : /\ q[k].op = "single"
                              /\ q[k].am = a /\ q[k].bytes = d
  BY StepsFields
<1>2. \A k \in 1..Len(q) : k = i \/ k = h \/ k \in 3..Len(q)
  OBVIOUS
<1>3. \A k \in 1..Len(q) : q[k].op \in {"set_am", "set_dmode", "single"}
  BY <1>1, <1>2
<1>4. ASSUME NEW k \in 1..Len(q), IsAccess(q[k])
      PROVE  AmAt(q, "none", k, q[k].am) /\ WidthHeld(q, 0, k, q[k].bytes)
  <2>1. k \in 3..Len(q)
    BY <1>1, <1>2, <1>4 DEF IsAccess
  <2>2. i \in 1..(k - 1) /\ h \in 1..(k - 1)
    BY <2>1
  <2>3. \A j \in 1..(k - 1) : j = i \/ j = h \/ j \in 3..Len(q)
    BY <1>2, <2>1
  <2>4. \A j \in (i + 1)..(k - 1) : j # i /\ j \in 1..(k - 1)
    BY <2>1
  <2>5. \A j \in (i + 1)..(k - 1) : q[j].op # "set_am"
    BY <1>1, <2>3, <2>4
  <2>6. \A j \in (h + 1)..(k - 1) : j # h /\ j \in 1..(k - 1)
    BY <2>1
  <2>7. \A j \in (h + 1)..(k - 1) : ~SetsWidth(q[j])
    BY <1>1, <2>3, <2>6 DEF SetsWidth
  <2>8. AmAt(q, "none", k, q[k].am)
    BY <1>1, <2>1, <2>2, <2>5 DEF AmAt
  <2>9. WidthHeld(q, 0, k, q[k].bytes)
    BY <1>1, <2>1, <2>2, <2>7 DEF WidthHeld
  <2> QED  BY <2>8, <2>9
<1>5. Paired(q, <<>>) /\ \A k \in 1..Len(q) : q[k].op # "set_blt" /\ ~MovesStack(q[k])
  BY <1>3 DEF Paired, MovesStack
<1> QED  BY <1>4, <1>5 DEF Fresh, SelfSet

\* The burst with the space set first, and with the width set first.
LEMMA Bursts ==
  ASSUME NEW n \in Nat, NEW a \in AMs, NEW d \in {D16, D32}
  PROVE  /\ Fresh(<<SetAm(a), SetDmode(d)>> \o Times(n, Single(a, d)))
         /\ Fresh(<<SetDmode(d), SetAm(a)>> \o Times(n, Single(a, d)))
         /\ LET q == <<SetAm(a), SetDmode(d)>> \o Times(n, Single(a, d))
            IN  \A k \in 1..Len(q) : ~MovesStack(q[k])
<1> DEFINE t == Times(n, Single(a, d))
           p == <<SetAm(a), SetDmode(d)>>
           r == <<SetDmode(d), SetAm(a)>>
<1>1. t \in Seq(Steps) /\ Len(t) = n /\ \A k \in 1..n : t[k] = Single(a, d)
  BY StepsType, TimesElements
<1>2. /\ p \in Seq(Steps) /\ Len(p) = 2 /\ p[1] = SetAm(a) /\ p[2] = SetDmode(d)
      /\ r \in Seq(Steps) /\ Len(r) = 2 /\ r[1] = SetDmode(d) /\ r[2] = SetAm(a)
  BY StepsType
<1> HIDE DEF t, p, r
<1>3. /\ p \o t \in Seq(Steps) /\ Len(p \o t) = 2 + n
      /\ (p \o t)[1] = SetAm(a) /\ (p \o t)[2] = SetDmode(d)
      /\ \A k \in 3..Len(p \o t) : (p \o t)[k] = Single(a, d)
  <2>1. 1 \in 1..Len(p) /\ 2 \in 1..Len(p)
    BY <1>2
  <2>2. \A k \in 3..(2 + n) : k \in (2 + 1)..(2 + n)
    OBVIOUS
  <2>3. /\ p \o t \in Seq(Steps) /\ Len(p \o t) = 2 + n
        /\ \A k \in 1..Len(p) : (p \o t)[k] = p[k]
        /\ \A k \in (2 + 1)..(2 + n) :
             (p \o t)[k] = t[k - 2] /\ k - 2 \in 1..n
    <3>1. /\ p \o t \in Seq(Steps) /\ Len(p \o t) = Len(p) + Len(t)
          /\ \A k \in 1..Len(p) : (p \o t)[k] = p[k]
          /\ \A k \in (Len(p) + 1)..Len(p \o t) :
               (p \o t)[k] = t[k - Len(p)] /\ k - Len(p) \in 1..Len(t)
      BY <1>1, <1>2, ConcatElements
    <3> QED  BY ONLY <1>1, <1>2, <3>1
  <2> QED  BY ONLY <1>1, <1>2, <2>1, <2>2, <2>3
<1>4. /\ r \o t \in Seq(Steps) /\ Len(r \o t) = 2 + n
      /\ (r \o t)[1] = SetDmode(d) /\ (r \o t)[2] = SetAm(a)
      /\ \A k \in 3..Len(r \o t) : (r \o t)[k] = Single(a, d)
  <2>1. 1 \in 1..Len(r) /\ 2 \in 1..Len(r)
    BY <1>2
  <2>2. \A k \in 3..(2 + n) : k \in (2 + 1)..(2 + n)
    OBVIOUS
  <2>3. /\ r \o t \in Seq(Steps) /\ Len(r \o t) = 2 + n
        /\ \A k \in 1..Len(r) : (r \o t)[k] = r[k]
        /\ \A k \in (2 + 1)..(2 + n) :
             (r \o t)[k] = t[k - 2] /\ k - 2 \in 1..n
    <3>1. /\ r \o t \in Seq(Steps) /\ Len(r \o t) = Len(r) + Len(t)
          /\ \A k \in 1..Len(r) : (r \o t)[k] = r[k]
          /\ \A k \in (Len(r) + 1)..Len(r \o t) :
               (r \o t)[k] = t[k - Len(r)] /\ k - Len(r) \in 1..Len(t)
      BY <1>1, <1>2, ConcatElements
    <3> QED  BY ONLY <1>1, <1>2, <3>1
  <2> QED  BY ONLY <1>1, <1>2, <2>1, <2>2, <2>3
<1>5. Fresh(p \o t) /\ \A k \in 1..Len(p \o t) : ~MovesStack((p \o t)[k])
  <2>1. 1 \in 1..2 /\ 2 \in 1..2 /\ 1 # 2 /\ Len(p \o t) >= 2
    BY <1>3
  <2> QED  BY <1>3, <2>1, BurstFresh
<1>6. Fresh(r \o t)
  <2>1. 1 \in 1..2 /\ 2 \in 1..2 /\ 2 # 1 /\ Len(r \o t) >= 2
    BY <1>4
  <2> QED  BY <1>4, <2>1, BurstFresh
<1> QED  BY <1>5, <1>6 DEF t, p, r

\* One access to a register of the V1290N, between saving and restoring.
LEMMA RegisterFresh ==
  ASSUME NEW d \in {D16, D32}
  PROVE  Fresh(<<Save, SetAm("A32"), SetDmode(d), Single("A32", d), Restore>>)
<1> DEFINE q == <<Save, SetAm("A32"), SetDmode(d), Single("A32", d), Restore>>
<1>1. "A32" \in AMs
  BY DEF AMs
<1>2. q \in Seq(Steps) /\ Len(q) = 5
  BY <1>1, StepsType
<1>3. /\ q[1].op = "save" /\ q[2].op = "set_am" /\ q[2].am = "A32"
      /\ q[3].op = "set_dmode" /\ q[3].bytes = d
      /\ q[4].op = "single" /\ q[4].am = "A32" /\ q[4].bytes = d
      /\ q[5].op = "restore"
  BY StepsFields
<1> HIDE DEF q
<1>4. \A k \in 1..5 : k = 1 \/ k = 2 \/ k = 3 \/ k = 4 \/ k = 5
  OBVIOUS
<1>5. SelfSet(q)
  <2>1. \A k \in 1..5 : IsAccess(q[k]) => k = 4
    BY <1>3, <1>4 DEF IsAccess
  <2>2. AmAt(q, "none", 4, "A32")
    <3>1. 2 \in 1..(4 - 1) /\ \A i \in (2 + 1)..(4 - 1) : i = 3
      OBVIOUS
    <3>2. \A i \in (2 + 1)..(4 - 1) : q[i].op # "set_am"
      BY <1>3, <3>1
    <3> QED  BY ONLY <1>3, <3>1, <3>2 DEF AmAt
  <2>3. WidthHeld(q, 0, 4, d)
    <3>1. 3 \in 1..(4 - 1) /\ \A i \in (3 + 1)..(4 - 1) : ~SetsWidth(q[i])
      OBVIOUS
    <3> QED  BY ONLY <1>3, <3>1 DEF WidthHeld
  <2> QED  BY <1>2, <1>3, <2>1, <2>2, <2>3 DEF SelfSet
<1>6. Paired(q, <<>>)
  <2>1. \A k \in 1..5 : q[k].op = "restore" => k = 5
    BY <1>3, <1>4
  <2>2. \A i \in (1 + 1)..(5 - 1) : ~MovesStack(q[i])
    BY <1>3 DEF MovesStack
  <2>3. 1 \in 1..(5 - 1)
    OBVIOUS
  <2> QED  BY ONLY <1>2, <1>3, <2>1, <2>2, <2>3 DEF Paired
<1>7. \A k \in 1..5 : q[k].op # "set_blt"
  BY <1>3, <1>4
<1> QED  BY <1>2, <1>5, <1>6, <1>7 DEF Fresh, q

\* Words of the dialogue leave the saved widths alone.
MicroWords(q) == Fresh(q) /\ \A k \in 1..Len(q) : ~MovesStack(q[k])

\* A word with its looks at the handshake register.
LEMMA MicroIsWord ==
  ASSUME NEW n \in Nat
  PROVE  MicroWords(Micro(n))
<1>1. "A32" \in AMs /\ D16 \in {D16, D32}
  BY DEF AMs
<1> QED  BY <1>1, Bursts DEF Micro, MicroWords

\* Words one after the other.
LEMMA MicroWordsConcat ==
  ASSUME NEW s, NEW t, MicroWords(s), MicroWords(t)
  PROVE  MicroWords(s \o t)
<1>1. Fresh(s \o t)
  BY FreshConcat DEF MicroWords
<1>2. s \in Seq(Steps) /\ t \in Seq(Steps)
  BY DEF MicroWords, Fresh
<1>3. ASSUME NEW k \in 1..Len(s \o t) PROVE ~MovesStack((s \o t)[k])
  <2>1. CASE k \in 1..Len(s)
    BY <1>2, <2>1, ConcatElements DEF MicroWords
  <2>2. CASE k \in (Len(s) + 1)..Len(s \o t)
    BY <1>2, <2>2, ConcatElements DEF MicroWords
  <2>3. Len(s) \in Nat /\ Len(s \o t) \in Nat
    BY <1>2, ConcatElements
  <2> QED  BY <2>1, <2>2, <2>3
<1> QED  BY <1>1, <1>3 DEF MicroWords

\* A call of the dialogue saves the width first and restores it last.
LEMMA DialogueFresh ==
  ASSUME NEW words, MicroWords(words)
  PROVE  Fresh(Dialogue(words))
<1> DEFINE p == <<Save, SetDmode(D16)>>
           r == <<Restore>>
           s == p \o words
           q == s \o r
<1>1. /\ p \in Seq(Steps) /\ Len(p) = 2 /\ r \in Seq(Steps) /\ Len(r) = 1
      /\ p[1] = Save /\ p[2] = SetDmode(D16) /\ r[1] = Restore
  BY StepsType
<1>2. p[1].op = "save" /\ p[2].op = "set_dmode" /\ r[1].op = "restore"
  BY <1>1, StepsFields
<1> HIDE DEF p, r
<1>3. Fresh(p)
  <2>1. \A k \in 1..2 : p[k].op \in {"save", "set_dmode"}
    BY <1>2
  <2> QED  BY <1>1, <2>1 DEF Fresh, SelfSet, IsAccess, Paired
<1>4. Fresh(s)
  BY <1>3, FreshConcat DEF MicroWords
<1>5. /\ s \in Seq(Steps) /\ Len(s) \in Nat /\ Len(s) >= 2 /\ s[1] = p[1] /\ s[2] = p[2]
      /\ \A k \in 3..Len(s) : s[k] = words[k - 2] /\ k - 2 \in 1..Len(words)
  <2>1. words \in Seq(Steps)
    BY DEF MicroWords, Fresh
  <2>2. /\ s \in Seq(Steps) /\ Len(words) \in Nat /\ Len(s) = Len(p) + Len(words)
        /\ \A k \in 1..Len(p) : s[k] = p[k]
        /\ \A k \in (Len(p) + 1)..Len(s) :
             s[k] = words[k - Len(p)] /\ k - Len(p) \in 1..Len(words)
    BY <1>1, <2>1, ConcatElements
  <2> HIDE DEF s
  <2> QED  BY ONLY <1>1, <2>2
<1>6. \A k \in 2..Len(s) : ~MovesStack(s[k])
  <2> SUFFICES ASSUME NEW k \in 2..Len(s) PROVE ~MovesStack(s[k])
    OBVIOUS
  <2>1. CASE k = 2
    BY <1>2, <1>5, <2>1 DEF MovesStack
  <2>2. CASE k \in 3..Len(s)
    BY <1>5, <2>2 DEF MicroWords
  <2> QED  BY <1>5, <2>1, <2>2
<1> HIDE DEF s
<1>7. /\ q \in Seq(Steps) /\ Len(q) = Len(s) + 1
      /\ \A k \in 1..Len(s) : q[k] = s[k]
      /\ q[Len(s) + 1] = r[1]
  <2>1. /\ q \in Seq(Steps) /\ Len(q) = Len(s) + Len(r)
        /\ \A k \in 1..Len(s) : q[k] = s[k]
        /\ \A k \in 1..Len(r) : q[k + Len(s)] = r[k]
    BY <1>1, <1>5, ConcatElements
  <2> HIDE DEF q
  <2> QED  BY ONLY <1>1, <1>5, <2>1
<1> HIDE DEF q
<1>8. SelfSet(q)
  <2> SUFFICES ASSUME NEW k \in 1..Len(q), IsAccess(q[k])
               PROVE  AmAt(q, "none", k, q[k].am) /\ WidthHeld(q, 0, k, q[k].bytes)
    BY DEF SelfSet
  <2>1. k \in 1..Len(s)
    <3>1. ~IsAccess(q[Len(s) + 1])
      BY <1>2, <1>7 DEF IsAccess
    <3> QED  BY ONLY <1>5, <1>7, <3>1, k \in 1..Len(q), IsAccess(q[k])
  <2>2. AmAt(s, "none", k, q[k].am) /\ WidthHeld(s, 0, k, q[k].bytes)
    BY <1>4, <1>7, <2>1 DEF Fresh, SelfSet
  <2>3. Len(s) \in Nat /\ \A i \in 1..(k - 1) : q[i] = s[i]
    BY <1>5, <1>7, <2>1
  <2>4. AmAt(q, "none", k, q[k].am)
    BY ONLY <2>1, <2>2, <2>3 DEF AmAt
  <2>5. WidthHeld(q, 0, k, q[k].bytes)
    BY ONLY <2>1, <2>2, <2>3 DEF WidthHeld
  <2> QED  BY <2>4, <2>5
<1>9. Paired(q, <<>>)
  <2> SUFFICES ASSUME NEW k \in 1..Len(q), q[k].op = "restore"
               PROVE  \E j \in 1..(k - 1) :
                        q[j].op = "save" /\ \A i \in (j + 1)..(k - 1) : ~MovesStack(q[i])
    BY DEF Paired
  <2>1. q[1].op = "save"
    BY <1>2, <1>5, <1>7
  <2>2. k >= 2 /\ 1 \in 1..(k - 1)
    BY <1>5, <1>7, <2>1
  <2>3. \A i \in (1 + 1)..(k - 1) : i \in 2..Len(s) /\ i \in 1..Len(s)
    BY <1>5, <1>7
  <2>4. \A i \in (1 + 1)..(k - 1) : ~MovesStack(q[i])
    BY <1>6, <1>7, <2>3
  <2> QED  BY <2>1, <2>2, <2>4
<1>10. \A k \in 1..Len(q) : q[k].op # "set_blt"
  <2> SUFFICES ASSUME NEW k \in 1..Len(q) PROVE q[k].op # "set_blt"
    OBVIOUS
  <2>1. CASE k \in 1..Len(s)
    BY <1>4, <1>7, <2>1 DEF Fresh
  <2>2. CASE k = Len(s) + 1
    BY <1>2, <1>7, <2>2
  <2> QED  BY <1>5, <1>7, <2>1, <2>2
<1> QED  BY <1>7, <1>8, <1>9, <1>10 DEF Fresh, Dialogue, p, r, s, q

\* The words of an event come after v1290_IsDataReady, which has changed the
\* data width and restored it.
LEMMA EventReadReady ==
  ASSUME NEW n \in Nat
  PROVE  Ready(v1290_EventRead(n))
<1> DEFINE p == <<SetAm("A32"), SetDmode(D32)>> \o v1290_IsDataReady
           w == Times(n, Single("A32", D32))
           q == p \o w
<1>1. "A32" \in AMs
  BY DEF AMs
<1>2. /\ p \in Seq(Steps) /\ Len(p) = 7
      /\ p[1] = SetAm("A32") /\ p[2] = SetDmode(D32) /\ p[3] = Save
      /\ p[4] = SetAm("A32") /\ p[5] = SetDmode(D16)
      /\ p[6] = Single("A32", D16) /\ p[7] = Restore
  BY <1>1, StepsType DEF v1290_IsDataReady, v1290_Read16
<1>3. w \in Seq(Steps) /\ Len(w) = n /\ \A k \in 1..n : w[k] = Single("A32", D32)
  BY <1>1, StepsType, TimesElements
<1> HIDE DEF p, w
<1>4. /\ q \in Seq(Steps) /\ Len(q) = 7 + n
      /\ \A k \in 1..7 : q[k] = p[k]
      /\ \A k \in 8..(7 + n) : q[k] = Single("A32", D32)
  <2>1. /\ q \in Seq(Steps) /\ Len(q) = Len(p) + Len(w)
        /\ \A k \in 1..Len(p) : q[k] = p[k]
        /\ \A k \in (Len(p) + 1)..Len(q) : q[k] = w[k - Len(p)] /\ k - Len(p) \in 1..Len(w)
    BY <1>2, <1>3, ConcatElements
  <2> HIDE DEF q
  <2>2. Len(q) = 7 + n
    BY ONLY <1>2, <1>3, <2>1
  <2>3. \A k \in 8..(7 + n) : k \in (Len(p) + 1)..Len(q)
    BY ONLY <1>2, <2>2
  <2>4. \A k \in 8..(7 + n) : q[k] = w[k - Len(p)] /\ k - Len(p) \in 1..n
    BY ONLY <1>3, <2>1, <2>3
  <2>5. \A k \in 8..(7 + n) : q[k] = Single("A32", D32)
    BY ONLY <1>3, <2>4
  <2> QED  BY ONLY <1>2, <2>1, <2>2, <2>5
<1> HIDE DEF q
<1>5. /\ q[1].op = "set_am" /\ q[1].am = "A32"
      /\ q[2].op = "set_dmode" /\ q[2].bytes = D32
      /\ q[3].op = "save"
      /\ q[4].op = "set_am" /\ q[4].am = "A32"
      /\ q[5].op = "set_dmode" /\ q[5].bytes = D16
      /\ q[6].op = "single" /\ q[6].am = "A32" /\ q[6].bytes = D16
      /\ q[7].op = "restore"
      /\ \A k \in 8..(7 + n) : /\ q[k].op = "single"
                               /\ q[k].am = "A32" /\ q[k].bytes = D32
  BY <1>2, <1>4, StepsFields
<1>6. \A k \in 1..(7 + n) : \/ k = 1 \/ k = 2 \/ k = 3 \/ k = 4 \/ k = 5 \/ k = 6
                            \/ k = 7 \/ k \in 8..(7 + n)
  OBVIOUS
<1>7. \A k \in 1..(7 + n) : IsAccess(q[k]) => k = 6 \/ k \in 8..(7 + n)
  BY <1>5, <1>6 DEF IsAccess
<1>8. ASSUME NEW k \in 1..(7 + n), IsAccess(q[k]), NEW a0
      PROVE  AmAt(q, a0, k, q[k].am)
  <2>1. 4 \in 1..(k - 1)
    BY <1>7, <1>8
  <2>2. \A i \in (4 + 1)..(k - 1) : i = 5 \/ i = 6 \/ i = 7 \/ i \in 8..(7 + n)
    OBVIOUS
  <2>3. \A i \in (4 + 1)..(k - 1) : q[i].op # "set_am"
    BY <1>5, <2>2
  <2>4. q[k].am = "A32"
    BY <1>5, <1>7, <1>8
  <2> QED  BY ONLY <1>5, <2>1, <2>3, <2>4 DEF AmAt
<1>9. ASSUME NEW k \in 1..(7 + n), IsAccess(q[k]), NEW d0, NEW c0
      PROVE  WidthAt(q, d0, c0, k, q[k].bytes)
  <2>1. CASE k = 6
    <3>1. 5 \in 1..(6 - 1) /\ \A i \in (5 + 1)..(6 - 1) : ~SetsWidth(q[i])
      OBVIOUS
    <3>2. WidthHeld(q, d0, 6, D16)
      BY ONLY <1>5, <3>1 DEF WidthHeld
    <3>3. q[k].bytes = D16
      BY <1>5, <2>1
    <3> QED  BY ONLY <2>1, <3>2, <3>3 DEF WidthAt
  <2>2. CASE k \in 8..(7 + n)
    <3>1. WidthHeld(q, d0, 3, D32)
      <4>1. 2 \in 1..(3 - 1) /\ \A i \in (2 + 1)..(3 - 1) : ~SetsWidth(q[i])
        OBVIOUS
      <4> QED  BY ONLY <1>5, <4>1 DEF WidthHeld
    <3>2. WidthSaved(q, d0, c0, 7, D32)
      <4>1. 3 \in 1..(7 - 1) /\ \A i \in (3 + 1)..(7 - 1) : i = 4 \/ i = 5 \/ i = 6
        OBVIOUS
      <4>2. \A i \in (3 + 1)..(7 - 1) : ~MovesStack(q[i])
        BY <1>5, <4>1 DEF MovesStack
      <4> QED  BY ONLY <1>5, <3>1, <4>1, <4>2 DEF WidthSaved
    <3>3. 7 \in 1..(k - 1) /\ \A i \in (7 + 1)..(k - 1) : i \in 8..(7 + n)
      BY <2>2
    <3>4. \A i \in (7 + 1)..(k - 1) : ~SetsWidth(q[i])
      BY <1>5, <3>3 DEF SetsWidth
    <3>5. q[k].bytes = D32
      BY <1>5, <2>2
    <3> QED  BY ONLY <1>5, <3>2, <3>3, <3>4, <3>5 DEF WidthAt
  <2> QED  BY <1>7, <1>9, <2>1, <2>2
<1>10. ASSUME NEW c0 PROVE Paired(q, c0)
  <2>1. \A k \in 1..(7 + n) : q[k].op = "restore" => k = 7
    BY <1>5, <1>6
  <2>2. 3 \in 1..(7 - 1) /\ \A i \in (3 + 1)..(7 - 1) : i = 4 \/ i = 5 \/ i = 6
    OBVIOUS
  <2>3. \A i \in (3 + 1)..(7 - 1) : ~MovesStack(q[i])
    BY <1>5, <2>2 DEF MovesStack
  <2> QED  BY ONLY <1>4, <1>5, <2>1, <2>2, <2>3 DEF Paired
<1>11. ModeFirst(q)
  <2>1. \A k \in 1..(7 + n) : IsAccess(q[k]) => 1 \in 1..(k - 1)
    BY <1>7
  <2> QED  BY <1>4, <1>5, <2>1 DEF ModeFirst
<1>12. BltOff(q, FALSE)
  <2>1. \A k \in 1..(7 + n) : q[k].op # "set_blt"
    BY <1>5, <1>6
  <2> QED  BY <1>4, <2>1 DEF BltOff
<1> QED  BY <1>4, <1>8, <1>9, <1>10, <1>11, <1>12
         DEF Ready, AccessesSet, v1290_EventRead, p, w, q

\* The block transfer is switched off again by its own function.
LEMMA DataReadReady == Ready(v1290_DataRead)
<1> DEFINE on == SetBlt(TRUE)
           off == SetBlt(FALSE)
           q == <<SetAm("A32"), SetDmode(D32), on, Block("A32", D32), off>>
<1>1. "A32" \in AMs
  BY DEF AMs
<1>2. /\ on \in Steps /\ on.op = "set_blt"
      /\ off \in Steps /\ off.op = "set_blt" /\ ~off.on
  BY StepsType, StepsFields
<1> HIDE DEF on, off
<1>3. /\ q \in Seq(Steps) /\ Len(q) = 5
      /\ q[1].op = "set_am" /\ q[1].am = "A32"
      /\ q[2].op = "set_dmode" /\ q[2].bytes = D32
      /\ q[3].op = "set_blt"
      /\ q[4].op = "block" /\ q[4].am = "A32" /\ q[4].bytes = D32
      /\ q[5].op = "set_blt" /\ ~q[5].on
  BY <1>1, <1>2, StepsType, StepsFields
<1> HIDE DEF q
<1>4. \A k \in 1..5 : k = 1 \/ k = 2 \/ k = 3 \/ k = 4 \/ k = 5
  OBVIOUS
<1>5. \A k \in 1..5 : IsAccess(q[k]) => k = 4
  BY <1>3, <1>4 DEF IsAccess
<1>6. ASSUME NEW a0 PROVE AmAt(q, a0, 4, "A32")
  <2>1. 1 \in 1..(4 - 1) /\ \A i \in (1 + 1)..(4 - 1) : i = 2 \/ i = 3
    OBVIOUS
  <2>2. \A i \in (1 + 1)..(4 - 1) : q[i].op # "set_am"
    BY <1>3, <2>1
  <2> QED  BY ONLY <1>3, <2>1, <2>2 DEF AmAt
<1>7. ASSUME NEW d0, NEW c0 PROVE WidthAt(q, d0, c0, 4, D32)
  <2>1. 2 \in 1..(4 - 1) /\ \A i \in (2 + 1)..(4 - 1) : i = 3
    OBVIOUS
  <2>2. \A i \in (2 + 1)..(4 - 1) : ~SetsWidth(q[i])
    BY <1>3, <2>1 DEF SetsWidth
  <2> QED  BY ONLY <1>3, <2>1, <2>2 DEF WidthAt, WidthHeld
<1>8. \A c0 : Paired(q, c0)
  <2>1. \A k \in 1..5 : q[k].op # "restore"
    BY <1>3, <1>4
  <2> QED  BY <1>3, <2>1 DEF Paired
<1>9. ModeFirst(q)
  BY <1>3, <1>5 DEF ModeFirst
<1>10. BltOff(q, FALSE)
  <2>1. \A k \in 1..5 : q[k].op # "single"
    BY <1>3, <1>4
  <2>2. q # <<>> /\ Len(q) = 5
    BY <1>3
  <2> QED  BY ONLY <1>3, <2>1, <2>2 DEF BltOff
<1>11. ASSUME NEW a0, NEW d0, NEW c0 PROVE AccessesSet(q, a0, d0, c0)
  <2>1. AmAt(q, a0, 4, "A32") /\ WidthAt(q, d0, c0, 4, D32)
    BY <1>6, <1>7
  <2>2. Len(q) = 5
    BY <1>3
  <2> QED  BY ONLY <1>3, <1>5, <2>1, <2>2 DEF AccessesSet
<1> QED  BY <1>3, <1>8, <1>9, <1>10, <1>11
         DEF Ready, v1290_DataRead, q, on, off

\* The short functions of the V006 and of the V005.
LEMMA AccessFresh == Fresh(<<SetAm("A24"), SetDmode(D16), Single("A24", D16)>>)
<1> DEFINE q == <<SetAm("A24"), SetDmode(D16), Single("A24", D16)>>
<1>1. "A24" \in AMs
  BY DEF AMs
<1>2. /\ q \in Seq(Steps) /\ Len(q) = 3
      /\ q[1] = SetAm("A24") /\ q[2] = SetDmode(D16) /\ q[3] = Single("A24", D16)
  BY <1>1, StepsType
<1> HIDE DEF q
<1>3. Len(q) >= 2 /\ 1 \in 1..2 /\ 2 \in 1..2 /\ 1 # 2
  BY <1>2
<1>4. \A k \in 3..Len(q) : q[k] = Single("A24", D16)
  BY ONLY <1>2
<1>5. Fresh(q)
  BY <1>2, <1>3, <1>4, BurstFresh
<1> QED  BY <1>5 DEF q

\* Every function of the four drivers may be called in any state.
LEMMA FunctionsReady == \A f \in Functions : Ready(f)
<1>1. Ready(rpv130_Clear) /\ Ready(rpv130_IsBusy) /\ Ready(rpv130_ClearBusy)
      /\ Ready(rpv130_Pulse)
  <2>1. "A16" \in AMs /\ D16 \in {D16, D32} /\ 1 \in Nat /\ 2 \in Nat
    BY DEF AMs
  <2>2. Fresh(Rpv130(1)) /\ Fresh(Rpv130(2))
    BY <2>1, Bursts DEF Rpv130
  <2> QED  BY <2>2, FreshReady DEF rpv130_Clear, rpv130_IsBusy, rpv130_ClearBusy, rpv130_Pulse
<1>2. Ready(v006_access) /\ Ready(v005_access)
  BY AccessFresh, FreshReady DEF v006_access, v005_access
<1>3. Fresh(v1290_Read16) /\ Fresh(v1290_Read32) /\ Fresh(v1290_Write16)
  BY RegisterFresh DEF v1290_Read16, v1290_Read32, v1290_Write16
<1>4. /\ Ready(v1290_IsDataReady) /\ Ready(v1290_Command) /\ Ready(v1290_Status)
      /\ Ready(v1290_ReadEventCounter) /\ Ready(v1290_ReadEventFIFO)
      /\ Ready(v1290_Enable)
      /\ \A f \in v1290_Level : Ready(f)
  <2>1. Fresh(v1290_Enable)
    BY <1>3, FreshConcat DEF v1290_Enable
  <2> QED  BY <1>3, <2>1, FreshReady
           DEF v1290_IsDataReady, v1290_Command, v1290_Status, v1290_ReadEventCounter,
               v1290_ReadEventFIFO, v1290_Level
<1>5. ASSUME NEW n \in Nat
      PROVE  /\ Ready(v1290_ReadMicro(n)) /\ Ready(v1290_WriteMicro(n))
             /\ Ready(v1290_TriggerMatchingSet(n)) /\ Ready(v1290_TriggerConfRead(n))
  <2> DEFINE m == Micro(n)
  <2>1. MicroWords(m)
    BY MicroIsWord
  <2> HIDE DEF m
  <2>2. MicroWords(m \o m)
    BY <2>1, MicroWordsConcat
  <2>3. MicroWords(m \o m \o m)
    BY <2>1, <2>2, MicroWordsConcat
  <2>4. MicroWords(m \o m \o m \o m)
    BY <2>1, <2>3, MicroWordsConcat
  <2>5. MicroWords(m \o m \o m \o m \o m)
    BY <2>1, <2>4, MicroWordsConcat
  <2>6. MicroWords(m \o m \o m \o m \o m \o m)
    BY <2>1, <2>5, MicroWordsConcat
  <2>7. Ready(Dialogue(m)) /\ Ready(Dialogue(m \o m))
        /\ Ready(Dialogue(m \o m \o m \o m \o m \o m))
    BY <2>1, <2>2, <2>6, DialogueFresh, FreshReady
  <2> QED  BY <2>7 DEF m, v1290_ReadMicro, v1290_WriteMicro,
                       v1290_TriggerMatchingSet, v1290_TriggerConfRead
<1> QED  BY <1>1, <1>2, <1>4, <1>5, EventReadReady, DataReadReady, TurnsAssumption
         DEF Functions

-----------------------------------------------------------------------------
(***************************************************************************)
(* The invariant.                                                          *)
(***************************************************************************)
\* Between two functions nothing is left to set up.
LEMMA NothingLeft ==
  \A a0, d0, c0 : /\ AccessesSet(<<>>, a0, d0, c0) /\ Paired(<<>>, c0)
                  /\ ModeFirst(<<>>)
  BY DEF AccessesSet, Paired, ModeFirst

\* No access modes but those of the module.
LEMMA AccessModeType ==
  ASSUME NEW a \in AMs, NEW d \in {D16, D32}
  PROVE  AccessMode(a, d) = [am |-> a, dmode |-> d]
  BY DEF AccessMode, AMs, D16, D32

\* It holds once the program has started.
LEMMA BusInvInit == Init => BusInv
<1> SUFFICES ASSUME Init PROVE BusInv
  OBVIOUS
<1>1. AccessMode("A32", D32) = [am |-> "A32", dmode |-> D32]
  BY AccessModeType DEF AMs
<1>2. TypeOK
  <2>1. todo \in Seq(Steps) /\ cmodes \in Seq({D16, D32})
    BY DEF Init
  <2>2. am \in AMs /\ dmode \in {D16, D32} /\ mode \in [am : AMs, dmode : {D16, D32}]
    BY <1>1 DEF Init, AMs
  <2> QED  BY <2>1, <2>2 DEF Init, TypeOK
<1> QED  BY <1>2, NothingLeft DEF Init, BusInv, ModeInv, BltOff

\* What one call on the interface keeps, given what it does to the modes.
LEMMA CallStep ==
  ASSUME TypeOK, BusInv, todo # <<>>, todo' = Tail(todo), TypeOK', open' = open,
         am' = IF todo[1].op = "set_am" THEN todo[1].am ELSE am,
         todo[1].op = "set_dmode" => dmode' = todo[1].bytes,
         todo[1].op = "restore" => (cmodes # <<>> => dmode' = Head(cmodes)),
         ~SetsWidth(todo[1]) => dmode' = dmode,
         todo[1].op = "save" => cmodes' # <<>> /\ Head(cmodes') = dmode,
         ~MovesStack(todo[1]) => cmodes' = cmodes,
         blt' = IF todo[1].op = "set_blt" THEN todo[1].on ELSE blt,
         ModeInv', ~stuck' => dma' = blt'
  PROVE  BusInv'
<1>1. todo \in Seq(Steps)
  BY DEF TypeOK
<1>2. AccessesSet(todo', am', dmode', cmodes')
  BY <1>1, AccessesSetStep DEF BusInv
<1>3. Paired(todo', cmodes')
  BY <1>1, PairedStep DEF BusInv
<1>4. open' /\ BltOff(todo', blt')
  BY <1>1, BltOffStep DEF BusInv
<1> QED  BY <1>2, <1>3, <1>4 DEF BusInv

\* A call that leaves the access mode alone does not make ModeInv fail.
LEMMA ModeKept ==
  ASSUME TypeOK, ModeInv, todo # <<>>, todo' = Tail(todo),
         todo[1].op # "set_am", ~SetsWidth(todo[1]),
         UNCHANGED <<mode, am, dmode, stale>>
  PROVE  ModeInv'
<1>1. todo \in Seq(Steps)
  BY DEF TypeOK
<1>2. ModeFirst(todo) => ModeFirst(todo')
  BY <1>1, ModeFirstStep
<1> QED  BY <1>2 DEF ModeInv

\* What a step of a driver function starts from.
LEMMA FirstCall ==
  ASSUME TypeOK, NEW op, Does(op)
  PROVE  /\ todo # <<>> /\ todo' = Tail(todo)
         /\ todo[1] = Head(todo) /\ todo[1].op = op
         /\ todo[1].am \in AMs /\ todo[1].bytes \in {D16, D32} /\ todo[1].on \in BOOLEAN
         /\ todo' \in Seq(Steps)
<1>1. todo \in Seq(Steps) /\ todo # <<>> /\ todo' = Tail(todo) /\ Head(todo).op = op
  BY DEF TypeOK, Does
<1>2. Head(todo) = todo[1] /\ Tail(todo) \in Seq(Steps) /\ todo[1] \in Steps
  BY <1>1, TailElements
<1> QED  BY <1>1, <1>2 DEF Steps

\* The file takes a mode of the right type, and follows unless the ioctl fails.
LEMMA SetAccessModeStep ==
  ASSUME TypeOK, am' \in AMs, dmode' \in {D16, D32},
         bt617_SetAccessMode(am', dmode')
  PROVE  /\ mode' \in [am : AMs, dmode : {D16, D32}] /\ stale' \in BOOLEAN
         /\ ModeInv'
<1>1. AccessMode(am', dmode') = [am |-> am', dmode |-> dmode']
  BY AccessModeType
<1>2. CASE mode' = AccessMode(am', dmode') /\ stale' = FALSE
  <2>1. mode' \in [am : AMs, dmode : {D16, D32}]
    BY ONLY <1>1, <1>2, am' \in AMs, dmode' \in {D16, D32}
  <2>2. ModeInv'
    BY <1>2 DEF ModeInv
  <2> QED  BY <1>2, <2>1, <2>2
<1>3. CASE mode' = mode /\ stale' = TRUE
  <2>1. mode' \in [am : AMs, dmode : {D16, D32}]
    BY <1>3 DEF TypeOK
  <2>2. ModeInv'
    BY <1>3 DEF ModeInv
  <2> QED  BY <1>3, <2>1, <2>2
<1> QED  BY <1>2, <1>3 DEF bt617_SetAccessMode

\* Every call keeps it, and so do the calls of other functions, the opening and
\* the closing of the file.
LEMMA BusInvNext == BusInv /\ [Next]_vars => BusInv'
<1> SUFFICES ASSUME BusInv, [Next]_vars PROVE BusInv'
  OBVIOUS
<1> USE DEF ifVars, fileVars, histVars
<1>0. TypeOK /\ ModeInv /\ (~stuck => dma = blt)
  BY DEF BusInv
<1>1. CASE UNCHANGED vars
  <2>1. UNCHANGED <<open, am, dmode, blt, mode, dma, todo, cmodes, stale, stuck>>
    BY <1>1 DEF vars
  <2>2. TypeOK' /\ ModeInv'
    BY <1>0, <2>1 DEF TypeOK, ModeInv
  <2> QED  BY <2>1, <2>2 DEF BusInv
<1>2. CASE mvme_open
  <2>1. /\ UNCHANGED <<todo, cmodes, stale>> /\ todo = <<>>
        /\ am' = "A32" /\ dmode' = D32 /\ blt' = FALSE /\ dma' = FALSE /\ open' = TRUE
        /\ stuck' = FALSE /\ mode' = AccessMode("A32", D32)
    BY <1>2 DEF mvme_open, BusInv
  <2>2. AccessMode("A32", D32) = [am |-> "A32", dmode |-> D32]
    BY AccessModeType DEF AMs
  <2>3. TypeOK'
    <3>1. "A32" \in AMs
      BY DEF AMs
    <3>2. mode' \in [am : AMs, dmode : {D16, D32}]
      BY ONLY <2>1, <2>2, <3>1
    <3> QED  BY <1>0, <2>1, <3>1, <3>2 DEF TypeOK
  <2>4. BltOff(<<>>, FALSE)
    BY DEF BltOff
  <2> QED  BY <2>1, <2>3, <2>4, NothingLeft DEF BusInv, ModeInv
<1>3. CASE mvme_close
  <2>1. todo' = <<>> /\ cmodes' = <<>> /\ open' = FALSE
    BY <1>3 DEF mvme_close
  <2>2. todo' \in Seq(Steps) /\ cmodes' \in Seq({D16, D32})
    BY <2>1
  <2>3. TypeOK'
    BY <1>0, <1>3, <2>2 DEF mvme_close, TypeOK
  <2>4. ~stuck' => dma' = blt'
    BY <1>0, <1>3 DEF mvme_close
  <2> QED  BY <2>1, <2>3, <2>4, NothingLeft DEF BusInv, ModeInv
<1>4. CASE CallFunction
  <2>1. todo' \in Functions /\ UNCHANGED <<open, am, dmode, blt, mode, dma, cmodes, stuck>>
        /\ open /\ todo = <<>> /\ stale' = FALSE
    BY <1>4 DEF CallFunction
  <2>2. Ready(todo')
    BY <2>1, FunctionsReady
  <2>3. TypeOK'
    BY <1>0, <2>1, <2>2 DEF TypeOK, Ready
  <2>4. ~blt
    BY <2>1 DEF BusInv, BltOff
  <2>5. BltOff(todo', blt')
    BY <2>1, <2>2, <2>4 DEF Ready, BltOff
  <2> QED  BY <1>0, <2>1, <2>2, <2>3, <2>5 DEF BusInv, Ready, ModeInv
<1>5. CASE mvme_set_am
  <2>1. Does("set_am")
    BY <1>5 DEF mvme_set_am
  <2>2. /\ am' = todo[1].am /\ bt617_SetAccessMode(am', dmode')
        /\ UNCHANGED <<open, dmode, blt, dma, cmodes, stuck>>
    BY <1>0, <1>5, <2>1, FirstCall DEF mvme_set_am
  <2>3. am' \in AMs /\ dmode' \in {D16, D32}
    BY <1>0, <2>1, <2>2, FirstCall DEF TypeOK
  <2>4. TypeOK'
    BY <1>0, <2>1, <2>2, <2>3, FirstCall, SetAccessModeStep DEF TypeOK
  <2>5. ModeInv'
    BY <1>0, <2>2, <2>3, SetAccessModeStep
  <2> QED  BY <1>0, <2>1, <2>2, <2>4, <2>5, FirstCall, CallStep DEF SetsWidth, MovesStack
<1>6. CASE mvme_set_dmode
  <2>1. Does("set_dmode")
    BY <1>6 DEF mvme_set_dmode
  <2>2. /\ dmode' = todo[1].bytes /\ bt617_SetAccessMode(am', dmode')
        /\ UNCHANGED <<open, am, blt, dma, cmodes, stuck>>
    BY <1>0, <1>6, <2>1, FirstCall DEF mvme_set_dmode
  <2>3. am' \in AMs /\ dmode' \in {D16, D32}
    BY <1>0, <2>1, <2>2, FirstCall DEF TypeOK
  <2>4. TypeOK'
    BY <1>0, <2>1, <2>2, <2>3, FirstCall, SetAccessModeStep DEF TypeOK
  <2>5. ModeInv'
    BY <1>0, <2>2, <2>3, SetAccessModeStep
  <2> QED  BY <1>0, <2>1, <2>2, <2>4, <2>5, FirstCall, CallStep DEF SetsWidth, MovesStack
<1>7. CASE mvme_get_dmode
  <2>1. Does("save")
    BY <1>7 DEF mvme_get_dmode
  <2>2. cmodes' = <<dmode>> \o cmodes
        /\ UNCHANGED <<open, am, dmode, blt, mode, dma, stale, stuck>>
    BY <1>7 DEF mvme_get_dmode
  <2>3. cmodes' \in Seq({D16, D32}) /\ cmodes' # <<>> /\ Head(cmodes') = dmode
    BY <1>0, <2>2 DEF TypeOK
  <2>4. TypeOK'
    BY <1>0, <2>1, <2>2, <2>3, FirstCall DEF TypeOK
  <2>5. ModeInv'
    BY <1>0, <2>1, <2>2, FirstCall, ModeKept DEF SetsWidth
  <2> QED  BY <1>0, <2>1, <2>2, <2>3, <2>4, <2>5, FirstCall, CallStep
           DEF SetsWidth, MovesStack
<1>8. CASE RestoreDmode
  <2>1. Does("restore")
    BY <1>8 DEF RestoreDmode
  <2>2. /\ dmode' = Head(cmodes) /\ cmodes' = Tail(cmodes)
        /\ bt617_SetAccessMode(am', dmode')
        /\ UNCHANGED <<open, am, blt, dma, stuck>>
    BY <1>8 DEF RestoreDmode
  <2>3. cmodes # <<>>
    <3>1. 1 \in 1..Len(todo) /\ todo[1].op = "restore"
      BY <1>0, <2>1, FirstCall, TailElements DEF TypeOK
    <3>2. Paired(todo, cmodes)
      BY DEF BusInv
    <3>3. \A j \in 1..(1 - 1) : FALSE
      OBVIOUS
    <3> QED  BY ONLY <3>1, <3>2, <3>3 DEF Paired
  <2>4. cmodes' \in Seq({D16, D32}) /\ dmode' \in {D16, D32}
    BY <1>0, <2>2, <2>3 DEF TypeOK
  <2>5. am' \in AMs
    BY <1>0, <2>2 DEF TypeOK
  <2>6. TypeOK'
    BY <1>0, <2>1, <2>2, <2>4, <2>5, FirstCall, SetAccessModeStep DEF TypeOK
  <2>7. ModeInv'
    BY <1>0, <2>2, <2>4, <2>5, SetAccessModeStep
  <2> QED  BY <1>0, <2>1, <2>2, <2>6, <2>7, FirstCall, CallStep DEF SetsWidth, MovesStack
<1>9. CASE mvme_set_blt
  <2>1. Does("set_blt")
    BY <1>9 DEF mvme_set_blt
  <2>2. /\ blt' = todo[1].on /\ (~stuck' => dma' = blt')
        /\ UNCHANGED <<open, am, dmode, mode, cmodes, stale>>
    BY <1>0, <1>9, <2>1, FirstCall DEF mvme_set_blt
  <2>3. dma' \in BOOLEAN /\ stuck' \in BOOLEAN /\ blt' \in BOOLEAN
    BY <1>0, <1>9, <2>1, <2>2, FirstCall DEF mvme_set_blt, TypeOK
  <2>4. TypeOK'
    BY <1>0, <2>1, <2>2, <2>3, FirstCall DEF TypeOK
  <2>5. ModeInv'
    BY <1>0, <2>1, <2>2, FirstCall, ModeKept DEF SetsWidth
  <2> QED  BY <1>0, <2>1, <2>2, <2>4, <2>5, FirstCall, CallStep DEF SetsWidth, MovesStack
<1>10. CASE Access
  <2>1. /\ Does("single") \/ Does("block")
        /\ UNCHANGED <<open, am, dmode, blt, mode, dma, cmodes, stale, stuck>>
    BY <1>10 DEF Access
  <2>2. /\ todo # <<>> /\ todo' = Tail(todo) /\ todo' \in Seq(Steps)
        /\ todo[1].op \in {"single", "block"}
    BY <1>0, <2>1, FirstCall
  <2>3. TypeOK'
    BY <1>0, <2>1, <2>2 DEF TypeOK
  <2>4. ModeInv'
    BY <1>0, <2>1, <2>2, ModeKept DEF SetsWidth
  <2> QED  BY <1>0, <2>1, <2>2, <2>3, <2>4, CallStep DEF SetsWidth, MovesStack
<1> QED  BY <1>1, <1>2, <1>3, <1>4, <1>5, <1>6, <1>7, <1>8, <1>9, <1>10 DEF Next

\* At every moment the calls left set up the accesses left, whatever has been
\* called before and whichever ioctls have failed.
THEOREM BusInvariance == Spec => []BusInv
  BY BusInvInit, BusInvNext, PTL DEF Spec

\* No driver function accesses its module in the mode of another one, unless
\* an ioctl of its own has failed.
THEOREM AccessesInMode == Spec => []AccessInMode
<1>1. BusInv => AccessInMode
  <2> SUFFICES ASSUME BusInv, Accessing, ~stale
               PROVE  mode = AccessMode(Head(todo).am, Head(todo).bytes)
    BY DEF AccessInMode
  <2>1. todo \in Seq(Steps) /\ todo # <<>>
    BY DEF BusInv, TypeOK, Accessing
  <2>2. Head(todo) = todo[1] /\ 1 \in 1..Len(todo)
    BY <2>1, TailElements
  <2>3. \A j \in 1..(1 - 1) : FALSE
    OBVIOUS
  <2>4. IsAccess(todo[1])
    BY <2>2 DEF Accessing, IsAccess
  <2>5. AmAt(todo, am, 1, todo[1].am) /\ WidthAt(todo, dmode, cmodes, 1, todo[1].bytes)
    BY <2>2, <2>4 DEF BusInv, AccessesSet
  <2>6. am = todo[1].am /\ dmode = todo[1].bytes
    BY ONLY <2>3, <2>5 DEF AmAt, WidthAt, WidthHeld
  <2>7. ~ModeFirst(todo)
    BY ONLY <2>2, <2>3, <2>4 DEF ModeFirst
  <2> QED  BY <2>2, <2>6, <2>7 DEF BusInv, ModeInv
<1> QED  BY <1>1, BusInvariance, PTL

\* A read moves as many bytes as its caller takes from the result, and so for
\* the words of an event, whose width v1290_IsDataReady has changed meanwhile.
THEOREM WordsWhole == Spec => []WholeWords
<1>1. BusInv => WholeWords
  <2> SUFFICES ASSUME BusInv, Accessing, Head(todo).op = "single"
               PROVE  dmode = Head(todo).bytes
    BY DEF WholeWords
  <2>1. todo \in Seq(Steps) /\ todo # <<>>
    BY DEF BusInv, TypeOK, Accessing
  <2>2. Head(todo) = todo[1] /\ 1 \in 1..Len(todo)
    BY <2>1, TailElements
  <2>3. \A j \in 1..(1 - 1) : FALSE
    OBVIOUS
  <2>4. WidthAt(todo, dmode, cmodes, 1, todo[1].bytes)
    BY <2>2 DEF BusInv, AccessesSet, IsAccess
  <2>5. dmode = todo[1].bytes
    BY ONLY <2>3, <2>4 DEF WidthAt, WidthHeld
  <2> QED  BY <2>2, <2>5
<1> QED  BY <1>1, BusInvariance, PTL

\* Single words go by DMA only where the ioctl that should have ended a block
\* transfer has failed.
THEOREM SinglesAreByPio == Spec => []SinglesByPio
<1>1. BusInv => SinglesByPio
  <2> SUFFICES ASSUME BusInv, Accessing, Head(todo).op = "single", ~stuck
               PROVE  ~dma
    BY DEF SinglesByPio
  <2>1. todo \in Seq(Steps) /\ todo # <<>>
    BY DEF BusInv, TypeOK, Accessing
  <2>2. todo[1].op = "single" /\ 1 \in 1..Len(todo)
    BY <2>1, TailElements
  <2>3. ~blt
    BY <2>1, <2>2 DEF BusInv, BltOff
  <2> QED  BY <2>3 DEF BusInv
<1> QED  BY <1>1, BusInvariance, PTL
=============================================================================

-------------------------- MODULE UdevFilterProofs --------------------------
(***************************************************************************)
(* Proofs about UdevFilter, for any devices, any entries and any bounds:   *)
(* the answer of the unlocked walk is the one of the list at some moment   *)
(* of the call, a failed allocation never lets a device in that the        *)
(* positive entries turn away, and the temporary device is given back.     *)
(* How an entry matches (PositiveMatch, NegativeMatch) is never expanded:  *)
(* the theorems hold whatever fnmatch(3) answers.                          *)
(***************************************************************************)
EXTENDS UdevFilter, SequenceTheorems, TLAPS

(* What the first n entries say of the device the walk is about.           *)
AsksFor(n, t) == \E i \in 1..n : ~list[i].neg /\ list[i].type = t

Hits(n, t) ==
    \E i \in 1..n :
        ~list[i].neg /\ list[i].type = t /\ PositiveMatch(dev, list[i])

Excluded(n) == \E i \in 1..n : list[i].neg /\ NegativeMatch(dev, list[i])

Verdict(n) ==
    /\ dev.subsystem # Unknown
    /\ \A t \in Types : AsksFor(n, t) => Hits(n, t)
    /\ ~Excluded(n)

(* seen and matched are the score of the first n entries: exact, but that  *)
(* a failed allocation may leave a match out.                              *)
ScoreOf(n) ==
    /\ \A t \in Types : t \in seen <=> AsksFor(n, t)
    /\ \A t \in Types : t \in matched => Hits(n, t)
    /\ failures = 0 => \A t \in Types : Hits(n, t) => t \in matched

(* What holds at each place of the walk.                                   *)
FirstInv == pc = "first" => ScoreOf(idx - 1)

ScoresInv ==
    pc \in {"scores", "second"} => \E n \in start..Len(list) : ScoreOf(n)

SecondInv ==
    pc = "second" => seen = matched /\ (failures = 0 => ~Excluded(idx - 1))

KnownInv == pc \in {"first", "scores", "second"} => dev.subsystem # Unknown

DoneInv ==
    pc = "done" /\ failures = 0 =>
        \E n \in start..Len(list) : result <=> Verdict(n)

(* The inductive invariant: the verdict at the end needs the score of the  *)
(* first walk to be that of one prefix of the list, which the second walk, *)
(* over a list that may have grown, then does not contradict.              *)
FilterInv ==
    /\ TypeOK /\ TemporaryReleased /\ PositivesFailClosed
    /\ FirstInv /\ ScoresInv /\ SecondInv /\ KnownInv /\ DoneInv

(* Over a prefix of the list, Wanted is Verdict.                           *)
LEMMA WantedIsVerdict ==
    ASSUME TypeOK, NEW n \in 0..Len(list)
    PROVE  Wanted(SubSeq(list, 1, n), dev) <=> Verdict(n)
<1> DEFINE l == SubSeq(list, 1, n)
<1>1. list \in Seq(Entries) /\ n \in Nat
  BY DEF TypeOK
<1>2. l \in Seq(Entries) /\ Len(l) = n /\ DOMAIN l = 1..n
  BY <1>1
<1>3. \A i \in 1..n : l[i] = list[i]
  BY <1>1
<1> HIDE DEF l
<1> DEFINE entries == {l[i] : i \in DOMAIN l}
           positive(t) == {e \in entries : ~e.neg /\ e.type = t}
<1>4. ASSUME NEW t \in Types
      PROVE  /\ positive(t) # {} <=> AsksFor(n, t)
             /\ (\E e \in positive(t) : PositiveMatch(dev, e)) <=> Hits(n, t)
  BY <1>2, <1>3 DEF AsksFor, Hits
<1>5. (\E e \in entries : e.neg /\ NegativeMatch(dev, e)) <=> Excluded(n)
  BY <1>2, <1>3 DEF Excluded
<1>6. Wanted(l, dev) <=>
        /\ dev.subsystem # Unknown
        /\ \A t \in Types :
               positive(t) # {} => \E e \in positive(t) : PositiveMatch(dev, e)
        /\ ~\E e \in entries : e.neg /\ NegativeMatch(dev, e)
  BY DEF Wanted
<1> HIDE DEF positive, entries
<1>7. Wanted(l, dev) <=> Verdict(n)
  BY <1>4, <1>5, <1>6 DEF Verdict
<1> QED BY <1>7 DEF l

(* Making the temporary device, or not, keeps the types.                   *)
LEMMA HaveDeviceType ==
    ASSUME TypeOK, HaveDevice \/ UNCHANGED <<ud, failures>>
    PROVE  ud' \in BOOLEAN /\ failures' \in 0..MaxFailures
<1>1. failures \in 0..MaxFailures /\ ud \in BOOLEAN
  BY DEF TypeOK
<1>2. ud' \in BOOLEAN
  <2>1. CASE HaveDevice
    BY <2>1 DEF HaveDevice
  <2>2. CASE UNCHANGED <<ud, failures>>
    BY <2>2, <1>1
  <2> QED BY <2>1, <2>2
<1>3. failures' \in 0..MaxFailures
  <2>1. \/ failures' = failures
        \/ failures < MaxFailures /\ failures' = failures + 1
    BY DEF HaveDevice
  <2> QED BY <2>1, <1>1, FilterAssumption
<1> QED BY <1>2, <1>3

(* No step takes a variable out of its type.                               *)
LEMMA TypeStep == TypeOK /\ [Next]_vars => TypeOK'
<1> SUFFICES ASSUME TypeOK, [Next]_vars PROVE TypeOK'
  OBVIOUS
<1> USE FilterAssumption DEF TypeOK, walk
<1>1. ASSUME NEW e \in Entries, FilterAdd(e) PROVE TypeOK'
  BY <1>1 DEF FilterAdd
<1>2. ASSUME NEW d \in Devices, Match(d) PROVE TypeOK'
  <2>1. Len(list) \in Nat
    BY LenProperties
  <2>2. 1 \in 1..Len(list) + 1 /\ Len(list) \in 0..Len(list)
    BY <2>1
  <2>3. {} \subseteq {} /\ {} \subseteq Types
    OBVIOUS
  <2> QED BY <1>2, <2>2, <2>3 DEF Match
<1>3. CASE SkipNegative
  BY <1>3 DEF SkipNegative
<1>4. CASE ScorePositive
  <2>1. list[idx] \in Entries /\ list[idx].type \in Types
    BY <1>4 DEF ScorePositive
  <2>2. ud' \in BOOLEAN /\ failures' \in 0..MaxFailures
    <3>1. HaveDevice \/ UNCHANGED <<ud, failures>>
      BY <1>4 DEF ScorePositive
    <3> QED BY <3>1, HaveDeviceType
  <2>3. matched' \subseteq seen' /\ seen' \subseteq Types
    BY <1>4, <2>1 DEF ScorePositive
  <2> QED BY <1>4, <2>2, <2>3 DEF ScorePositive
<1>5. CASE EndFirst
  BY <1>5 DEF EndFirst
<1>6. CASE Scores
  <2>1. idx' \in 1..Len(list) + 1
    <3>1. Len(list) \in Nat
      BY LenProperties
    <3>2. idx' = 1 \/ idx' = idx
      BY <1>6 DEF Scores
    <3> QED BY <3>1, <3>2
  <2>2. ud' \in BOOLEAN /\ result' \in BOOLEAN
    BY <1>6 DEF Scores, Return
  <2> QED BY <1>6, <2>1, <2>2 DEF Scores, Return
<1>7. CASE SkipPositive
  BY <1>7 DEF SkipPositive
<1>8. CASE PassNegative
  <2>1. ud' \in BOOLEAN /\ failures' \in 0..MaxFailures
    <3>1. HaveDevice \/ UNCHANGED <<ud, failures>>
      BY <1>8 DEF PassNegative
    <3> QED BY <3>1, HaveDeviceType
  <2> QED BY <1>8, <2>1 DEF PassNegative
<1>9. CASE HitNegative
  BY <1>9 DEF HitNegative, Return
<1>10. CASE EndSecond
  BY <1>10 DEF EndSecond, Return
<1>11. CASE UNCHANGED vars
  BY <1>11 DEF vars
<1> QED
  BY <1>1, <1>2, <1>3, <1>4, <1>5, <1>6, <1>7, <1>8, <1>9, <1>10, <1>11
     DEF Next, Walk

(* The list only grows: what its first entries say of a device stays.      *)
LEMMA PrefixStays ==
    ASSUME TypeOK, [Next]_vars, dev' = dev
    PROVE  /\ Len(list) <= Len(list')
           /\ \A n \in 0..Len(list) :
                  /\ \A t \in Types : /\ AsksFor(n, t)' <=> AsksFor(n, t)
                                      /\ Hits(n, t)' <=> Hits(n, t)
                  /\ Excluded(n)' <=> Excluded(n)
                  /\ Verdict(n)' <=> Verdict(n)
<1>1. /\ Len(list) <= Len(list')
      /\ \A i \in 1..Len(list) : list'[i] = list[i]
  <2>1. ASSUME NEW e \in Entries, FilterAdd(e)
        PROVE  /\ Len(list) <= Len(list')
               /\ \A i \in 1..Len(list) : list'[i] = list[i]
    BY <2>1 DEF FilterAdd, TypeOK
  <2>2. (~\E e \in Entries : FilterAdd(e)) => list' = list
    BY DEF Next, Walk, vars, Match, SkipNegative, ScorePositive, EndFirst,
           Scores, SkipPositive, PassNegative, HitNegative, EndSecond
  <2>3. list' = list => /\ Len(list) <= Len(list')
                        /\ \A i \in 1..Len(list) : list'[i] = list[i]
    BY DEF TypeOK
  <2> QED BY <2>1, <2>2, <2>3
<1>2. ASSUME NEW n \in 0..Len(list)
      PROVE  \A i \in 1..n : list'[i] = list[i]
  BY <1>1 DEF TypeOK
<1>3. ASSUME NEW n \in 0..Len(list), NEW t \in Types
      PROVE  /\ AsksFor(n, t)' <=> AsksFor(n, t)
             /\ Hits(n, t)' <=> Hits(n, t)
  BY <1>2 DEF AsksFor, Hits
<1>4. ASSUME NEW n \in 0..Len(list)
      PROVE  Excluded(n)' <=> Excluded(n)
  BY <1>2 DEF Excluded
<1>5. ASSUME NEW n \in 0..Len(list)
      PROVE  Verdict(n)' <=> Verdict(n)
  BY <1>3, <1>4 DEF Verdict
<1> QED BY <1>1, <1>3, <1>4, <1>5

(* What one entry more adds to what a prefix of the list says.             *)
LEMMA OneMore ==
    ASSUME TypeOK, NEW n \in 1..Len(list)
    PROVE  /\ n - 1 \in 0..Len(list)
           /\ \A t \in Types :
                  /\ AsksFor(n, t) <=>
                         \/ AsksFor(n - 1, t)
                         \/ ~list[n].neg /\ list[n].type = t
                  /\ Hits(n, t) <=>
                         \/ Hits(n - 1, t)
                         \/ /\ ~list[n].neg /\ list[n].type = t
                            /\ PositiveMatch(dev, list[n])
           /\ Excluded(n) <=>
                  \/ Excluded(n - 1)
                  \/ list[n].neg /\ NegativeMatch(dev, list[n])
<1>1. n \in Nat /\ n >= 1 /\ n - 1 \in 0..Len(list)
  BY DEF TypeOK
<1>2. \A i : i \in 1..n <=> i \in 1..(n - 1) \/ i = n
  BY <1>1
<1> QED BY <1>1, <1>2 DEF AsksFor, Hits, Excluded

(* A failed allocation is not forgotten.                                   *)
LEMMA FailuresStay ==
    TypeOK /\ [Next]_vars => (failures' = 0 => failures = 0)
<1> SUFFICES ASSUME TypeOK, [Next]_vars, failures' = 0 PROVE failures = 0
  OBVIOUS
<1>1. failures' = failures \/ failures' = failures + 1
  BY DEF Next, Walk, vars, walk, HaveDevice, FilterAdd, Match, SkipNegative,
         ScorePositive, EndFirst, Scores, SkipPositive, PassNegative,
         HitNegative, EndSecond
<1> QED BY <1>1 DEF TypeOK

(* A score stays that of the prefix it was made from.                      *)
LEMMA ScoreStays ==
    ASSUME TypeOK, [Next]_vars, UNCHANGED <<dev, seen, matched>>,
           NEW n \in 0..Len(list), ScoreOf(n)
    PROVE  ScoreOf(n)'
BY PrefixStays, FailuresStay DEF ScoreOf

(* Each step of the first walk extends the score by the entry it looks at. *)
LEMMA FirstStep == FilterInv /\ [Next]_vars => FirstInv'
<1> SUFFICES ASSUME FilterInv, [Next]_vars, pc' = "first"
             PROVE  ScoreOf(idx - 1)'
  BY DEF FirstInv
<1>1. TypeOK /\ FirstInv
  BY DEF FilterInv
<1>2. ASSUME UNCHANGED <<pc, dev, idx, seen, matched>>
      PROVE  ScoreOf(idx - 1)'
  <2>1. idx - 1 \in 0..Len(list) /\ ScoreOf(idx - 1)
    BY <1>1, <1>2 DEF TypeOK, FirstInv
  <2>2. \A n \in 0..Len(list) : ScoreOf(n) => ScoreOf(n)'
    BY <1>1, <1>2, ScoreStays
  <2>3. PICK n \in 0..Len(list) : n = idx - 1
    BY <2>1
  <2>4. idx' - 1 = n /\ ScoreOf(n)'
    BY <1>2, <2>1, <2>2, <2>3
  <2> QED BY <2>4 DEF ScoreOf, AsksFor, Hits
<1>3. CASE \E e \in Entries : FilterAdd(e)
  BY <1>2, <1>3 DEF FilterAdd, walk
<1>4. CASE \E d \in Devices : Match(d)
  <2>1. idx' = 1 /\ seen' = {} /\ matched' = {}
    BY <1>4 DEF Match
  <2>2. 1..(idx' - 1) = {}
    BY <2>1
  <2> QED BY <2>1, <2>2 DEF ScoreOf, AsksFor, Hits
<1>5. CASE SkipNegative
  <2>1. idx \in 1..Len(list) /\ list[idx].neg /\ idx' - 1 = idx
    BY <1>1, <1>5 DEF SkipNegative, TypeOK
  <2>2. ScoreOf(idx - 1)
    BY <1>1, <1>5 DEF SkipNegative, FirstInv
  <2>3. ScoreOf(idx)
    BY <1>1, <2>1, <2>2, OneMore DEF ScoreOf
  <2> QED BY <1>5, <2>1, <2>3 DEF SkipNegative, ScoreOf, AsksFor, Hits
<1>6. CASE ScorePositive
  <2>1. /\ idx \in 1..Len(list) /\ ~list[idx].neg /\ idx' - 1 = idx
        /\ list' = list /\ dev' = dev
    BY <1>1, <1>6 DEF ScorePositive, TypeOK
  <2>2. ScoreOf(idx - 1)
    BY <1>1, <1>6 DEF ScorePositive, FirstInv
  <2> DEFINE e == list[idx]
  <2>3. /\ seen' = seen \cup {e.type}
        /\ matched' \in {matched, matched \cup {e.type}}
        /\ matched' # matched => PositiveMatch(dev, e)
    BY <1>6 DEF ScorePositive
  <2>4. ASSUME failures' = 0
        PROVE  /\ failures = 0
               /\ PositiveMatch(dev, e) => matched' = matched \cup {e.type}
    <3>1. failures = 0
      BY <1>1, <2>4, FailuresStay
    <3>2. e.type \in ListTypes => ud' = TRUE
      BY <1>6, <2>4, <3>1 DEF ScorePositive, HaveDevice
    <3> QED BY <1>6, <3>1, <3>2 DEF ScorePositive
  <2>5. \A t \in Types :
            /\ AsksFor(idx, t) <=> AsksFor(idx - 1, t) \/ e.type = t
            /\ Hits(idx, t) <=> \/ Hits(idx - 1, t)
                                \/ e.type = t /\ PositiveMatch(dev, e)
    BY <1>1, <2>1, OneMore
  <2>6. \A t \in Types : /\ AsksFor(idx - 1, t)' <=> AsksFor(idx, t)
                         /\ Hits(idx - 1, t)' <=> Hits(idx, t)
    BY <2>1 DEF AsksFor, Hits
  <2>7. \A t \in Types : t \in seen' <=> AsksFor(idx, t)
    BY <2>2, <2>3, <2>5 DEF ScoreOf
  <2>8. \A t \in Types : t \in matched' => Hits(idx, t)
    BY <2>2, <2>3, <2>5 DEF ScoreOf
  <2>9. failures' = 0 => \A t \in Types : Hits(idx, t) => t \in matched'
    BY <2>2, <2>3, <2>4, <2>5 DEF ScoreOf
  <2> QED BY <2>6, <2>7, <2>8, <2>9 DEF ScoreOf
<1>7. CASE EndFirst \/ Scores \/ SkipPositive \/ PassNegative \/ HitNegative
           \/ EndSecond
  BY <1>7 DEF EndFirst, Scores, SkipPositive, PassNegative, HitNegative,
              EndSecond, Return
<1>8. CASE UNCHANGED vars
  BY <1>2, <1>8 DEF vars
<1> QED BY <1>3, <1>4, <1>5, <1>6, <1>7, <1>8 DEF Next, Walk

(* The first walk leaves the score of one prefix of the list behind, at    *)
(* least as long as the list was when the call began.                      *)
LEMMA ScoresStep == FilterInv /\ [Next]_vars => ScoresInv'
<1> SUFFICES ASSUME FilterInv, [Next]_vars, (pc \in {"scores", "second"})'
             PROVE  (\E n \in start..Len(list) : ScoreOf(n))'
  BY DEF ScoresInv
<1>1. TypeOK /\ FirstInv /\ ScoresInv
  BY DEF FilterInv
<1>2. start \in Nat /\ start <= Len(list) /\ Len(list) \in Nat
  BY <1>1, LenProperties DEF TypeOK
<1>3. /\ UNCHANGED <<dev, seen, matched, start>>
      /\ \/ pc \in {"scores", "second"}
         \/ EndFirst
  BY DEF Next, Walk, vars, walk, FilterAdd, Match, SkipNegative, ScorePositive,
         EndFirst, Scores, SkipPositive, PassNegative, HitNegative, EndSecond,
         Return
<1>4. PICK n \in start..Len(list) : ScoreOf(n)
  <2>1. CASE pc \in {"scores", "second"}
    BY <1>1, <2>1 DEF ScoresInv
  <2>2. CASE EndFirst
    <3>1. idx - 1 = Len(list) /\ ScoreOf(idx - 1)
      BY <1>1, <1>2, <2>2 DEF EndFirst, FirstInv, TypeOK
    <3> QED BY <1>2, <3>1
  <2> QED BY <1>3, <2>1, <2>2
<1>5. ScoreOf(n)'
  BY <1>1, <1>2, <1>3, <1>4, ScoreStays
<1>6. Len(list) <= Len(list') /\ Len(list') \in Nat
  <2>1. TypeOK'
    BY <1>1, TypeStep
  <2> QED BY <1>1, <1>3, <2>1, PrefixStays, LenProperties DEF TypeOK
<1>7. n \in start'..Len(list')
  BY <1>2, <1>3, <1>4, <1>6
<1> QED BY <1>5, <1>7

(* The second walk is entered with every type asked for matched, and has   *)
(* found no entry behind it that excludes the device.                      *)
LEMMA SecondStep == FilterInv /\ [Next]_vars => SecondInv'
<1> SUFFICES ASSUME FilterInv, [Next]_vars, pc' = "second"
             PROVE  /\ seen' = matched'
                    /\ failures' = 0 => ~Excluded(idx - 1)'
  BY DEF SecondInv
<1>1. TypeOK /\ SecondInv
  BY DEF FilterInv
<1>2. CASE Scores
  <2>1. seen' = matched' /\ idx' = 1
    BY <1>2 DEF Scores, Return
  <2>2. 1..(idx' - 1) = {}
    BY <2>1
  <2> QED BY <2>1, <2>2 DEF Excluded
<1>3. CASE SkipPositive
  <2>1. /\ idx \in 1..Len(list) /\ ~list[idx].neg /\ idx' - 1 = idx
        /\ UNCHANGED <<list, dev, seen, matched, failures>> /\ pc = "second"
    BY <1>1, <1>3 DEF SkipPositive, TypeOK
  <2>2. failures = 0 => ~Excluded(idx)
    BY <1>1, <2>1, OneMore DEF SecondInv
  <2> QED BY <1>1, <2>1, <2>2 DEF SecondInv, Excluded
<1>4. CASE PassNegative
  <2>1. /\ idx \in 1..Len(list) /\ idx' - 1 = idx
        /\ UNCHANGED <<list, dev, seen, matched>> /\ pc = "second"
    BY <1>1, <1>4 DEF PassNegative, TypeOK
  <2>2. ASSUME failures' = 0 PROVE ~Excluded(idx)
    <3>1. failures = 0
      BY <1>1, <2>2, FailuresStay
    <3>2. list[idx].type = "SYSATTR" => ud' = TRUE
      BY <1>4, <2>2, <3>1 DEF PassNegative, HaveDevice
    <3>3. ~NegativeMatch(dev, list[idx])
      BY <1>4, <3>2 DEF PassNegative
    <3>4. ~Excluded(idx - 1)
      BY <1>1, <2>1, <3>1 DEF SecondInv
    <3> QED BY <1>1, <2>1, <3>3, <3>4, OneMore
  <2> QED BY <1>1, <2>1, <2>2 DEF SecondInv, Excluded
<1>5. CASE \E e \in Entries : FilterAdd(e)
  <2>1. UNCHANGED <<dev, idx, seen, matched, failures>> /\ pc = "second"
    BY <1>5 DEF FilterAdd, walk
  <2>2. idx - 1 \in 0..Len(list)
    BY <1>1 DEF TypeOK
  <2>3. Excluded(idx - 1)' <=> Excluded(idx - 1)
    <3>1. \A n \in 0..Len(list) : Excluded(n)' <=> Excluded(n)
      BY <1>1, <2>1, PrefixStays
    <3> QED BY <2>1, <2>2, <3>1 DEF Excluded
  <2> QED BY <1>1, <2>1, <2>3 DEF SecondInv
<1>6. CASE \/ \E d \in Devices : Match(d)
           \/ SkipNegative \/ ScorePositive \/ EndFirst
           \/ HitNegative \/ EndSecond
  BY <1>6 DEF Match, SkipNegative, ScorePositive, EndFirst, HitNegative,
              EndSecond, Return
<1>7. CASE UNCHANGED vars
  BY <1>1, <1>7 DEF vars, SecondInv, Excluded
<1> QED BY <1>2, <1>3, <1>4, <1>5, <1>6, <1>7 DEF Next, Walk

(* A walk is about a device of a known subsystem.                          *)
LEMMA KnownStep == FilterInv /\ [Next]_vars => KnownInv'
<1> SUFFICES ASSUME FilterInv, [Next]_vars,
                    (pc \in {"first", "scores", "second"})'
             PROVE  (dev.subsystem # Unknown)'
  BY DEF KnownInv
<1>1. CASE \E d \in Devices : Match(d)
  BY <1>1 DEF Match
<1>2. ASSUME ~\E d \in Devices : Match(d)
      PROVE  dev' = dev /\ pc \in {"first", "scores", "second"}
  BY <1>2 DEF Next, Walk, vars, walk, FilterAdd, SkipNegative, ScorePositive,
              EndFirst, Scores, SkipPositive, PassNegative, HitNegative,
              EndSecond, Return
<1> QED BY <1>1, <1>2 DEF FilterInv, KnownInv

(* Every way out gives the temporary device back.                          *)
LEMMA ReleasedStep == FilterInv /\ [Next]_vars => TemporaryReleased'
<1> SUFFICES ASSUME FilterInv, [Next]_vars, (pc \in {"idle", "done"})'
             PROVE  ~ud'
  BY DEF TemporaryReleased
<1>1. \/ UNCHANGED <<pc, ud>>
      \/ pc \in {"idle", "done"} /\ ud' = ud
      \/ ud' = FALSE
  BY DEF Next, Walk, vars, walk, FilterAdd, Match, SkipNegative, ScorePositive,
         EndFirst, Scores, SkipPositive, PassNegative, HitNegative, EndSecond,
         Return
<1>2. pc \in {"idle", "done"} => ~ud
  BY DEF FilterInv, TemporaryReleased
<1> QED BY <1>1, <1>2

(* The only step that accepts a device is the end of the second walk.      *)
LEMMA Accepting ==
    ASSUME TypeOK, [Next]_vars, pc' = "done"
    PROVE  \/ pc = "done" /\ UNCHANGED <<dev, result, start, failures>>
           \/ result' = FALSE
           \/ EndSecond
BY DEF Next, Walk, vars, walk, FilterAdd, Match, SkipNegative, ScorePositive,
       EndFirst, Scores, SkipPositive, PassNegative, HitNegative, EndSecond,
       Return

(* A device is accepted only if every type asked for matches.              *)
LEMMA FailClosedStep == FilterInv /\ [Next]_vars => PositivesFailClosed'
<1> SUFFICES ASSUME FilterInv, [Next]_vars, pc' = "done", result'
             PROVE  \A i \in 1..start' : ~list'[i].neg =>
                        \E j \in 1..Len(list') :
                            /\ ~list'[j].neg /\ list'[j].type = list'[i].type
                            /\ PositiveMatch(dev', list'[j])
  BY DEF PositivesFailClosed
<1>1. TypeOK /\ ScoresInv /\ SecondInv /\ PositivesFailClosed
  BY DEF FilterInv
<1>2. Len(list) \in Nat /\ start \in Nat /\ start <= Len(list)
  BY <1>1, LenProperties DEF TypeOK
<1>3. CASE pc = "done" /\ UNCHANGED <<dev, result, start, failures>>
  <2>1. /\ Len(list) <= Len(list') /\ Len(list') \in Nat
        /\ \A i \in 1..Len(list) : list'[i] = list[i]
    <3>1. CASE list' = list
      BY <1>2, <3>1
    <3>2. CASE \E e \in Entries : FilterAdd(e)
      BY <1>1, <1>2, <3>2 DEF FilterAdd, TypeOK
    <3> QED
      BY <3>1, <3>2 DEF Next, Walk, vars, Match, SkipNegative, ScorePositive,
         EndFirst, Scores, SkipPositive, PassNegative, HitNegative, EndSecond
  <2>2. \A i \in 1..start : ~list[i].neg =>
            \E j \in 1..Len(list) : /\ ~list[j].neg
                                    /\ list[j].type = list[i].type
                                    /\ PositiveMatch(dev, list[j])
    BY <1>1, <1>3 DEF PositivesFailClosed
  <2>3. ASSUME NEW i \in 1..start', ~list'[i].neg
        PROVE  \E j \in 1..Len(list') : /\ ~list'[j].neg
                                        /\ list'[j].type = list'[i].type
                                        /\ PositiveMatch(dev', list'[j])
    <3>1. i \in 1..start /\ list'[i] = list[i]
      BY <1>2, <1>3, <2>1
    <3>2. PICK j \in 1..Len(list) : /\ ~list[j].neg
                                    /\ list[j].type = list[i].type
                                    /\ PositiveMatch(dev, list[j])
      BY <2>2, <2>3, <3>1
    <3>3. j \in 1..Len(list') /\ list'[j] = list[j]
      BY <1>2, <2>1
    <3> QED BY <1>3, <3>1, <3>2, <3>3
  <2> QED BY <2>3
<1>4. CASE EndSecond
  <2>1. /\ UNCHANGED <<list, dev, start>>
        /\ seen = matched /\ pc = "second"
    BY <1>1, <1>4 DEF EndSecond, SecondInv
  <2>2. PICK n \in start..Len(list) : ScoreOf(n)
    BY <1>1, <2>1 DEF ScoresInv
  <2>3. ASSUME NEW i \in 1..start, ~list[i].neg
        PROVE  \E j \in 1..Len(list) : /\ ~list[j].neg
                                       /\ list[j].type = list[i].type
                                       /\ PositiveMatch(dev, list[j])
    <3>1. i \in 1..n /\ i \in 1..Len(list) /\ n \in Nat
      BY <1>2
    <3>2. list[i].type \in Types
      BY <1>1, <3>1, FilterAssumption DEF TypeOK
    <3>3. AsksFor(n, list[i].type)
      BY <2>3, <3>1 DEF AsksFor
    <3>4. Hits(n, list[i].type)
      BY <2>1, <2>2, <3>2, <3>3 DEF ScoreOf
    <3> QED BY <1>2, <3>1, <3>4 DEF Hits
  <2> QED BY <2>1, <2>3
<1> QED BY <1>1, <1>3, <1>4, Accepting

(* The verdict is the one of the list at some moment of the call: of the   *)
(* prefix that was scored, if the device is accepted or a type that was    *)
(* asked for does not match; of the list as it is, if an entry excludes    *)
(* the device; of the list at the call, if the subsystem is unknown.       *)
LEMMA DoneStep == FilterInv /\ [Next]_vars => DoneInv'
<1> SUFFICES ASSUME FilterInv, [Next]_vars, pc' = "done", failures' = 0
             PROVE  \E n \in start'..Len(list') : result' <=> Verdict(n)'
  BY DEF DoneInv
<1>1. TypeOK /\ ScoresInv /\ SecondInv /\ KnownInv /\ DoneInv /\ failures = 0
  BY FailuresStay DEF FilterInv
<1>2. Len(list) \in Nat /\ start \in Nat /\ start <= Len(list)
  BY <1>1, LenProperties DEF TypeOK
<1>3. TypeOK' /\ Len(list') \in Nat
  <2>1. TypeOK'
    BY <1>1, TypeStep
  <2> QED BY <2>1, LenProperties DEF TypeOK
<1>4. CASE \E d \in Devices : Match(d)
  <2>1. /\ start' = Len(list') /\ result' = FALSE
        /\ ~(dev.subsystem # Unknown)'
    BY <1>4 DEF Match
  <2>2. start' \in start'..Len(list')
    BY <1>3, <2>1
  <2>3. \A n : ~Verdict(n)'
    BY <2>1 DEF Verdict
  <2> QED BY <2>1, <2>2, <2>3
<1>5. ASSUME ~\E d \in Devices : Match(d)
      PROVE  /\ dev' = dev /\ start' = start
             /\ Len(list) <= Len(list')
             /\ \A n \in start..Len(list) : /\ n \in start'..Len(list')
                                            /\ Verdict(n)' <=> Verdict(n)
  <2>1. dev' = dev /\ start' = start
    BY <1>5 DEF Next, Walk, vars, walk, FilterAdd, SkipNegative,
                ScorePositive, EndFirst, Scores, SkipPositive, PassNegative,
                HitNegative, EndSecond
  <2>2. /\ Len(list) <= Len(list')
        /\ \A n \in 0..Len(list) : Verdict(n)' <=> Verdict(n)
    BY <1>1, <2>1, PrefixStays
  <2> QED BY <1>2, <1>3, <2>1, <2>2
<1>6. CASE pc = "done" /\ ~\E d \in Devices : Match(d)
  <2>1. result' = result
    BY <1>6 DEF Next, Walk, vars, walk, FilterAdd, SkipNegative,
                ScorePositive, EndFirst, Scores, SkipPositive, PassNegative,
                HitNegative, EndSecond
  <2>2. PICK n \in start..Len(list) : result <=> Verdict(n)
    BY <1>1, <1>6 DEF DoneInv
  <2> QED BY <1>5, <1>6, <2>1, <2>2
<1>7. CASE Scores
  <2>1. pc = "scores" /\ result' = FALSE /\ seen # matched
    BY <1>7 DEF Scores, Return
  <2>2. PICK n \in start..Len(list) : ScoreOf(n)
    BY <1>1, <2>1 DEF ScoresInv
  <2>3. PICK t \in Types : t \in seen /\ t \notin matched
    BY <1>1, <2>1 DEF TypeOK
  <2>4. AsksFor(n, t) /\ ~Hits(n, t)
    BY <1>1, <2>2, <2>3 DEF ScoreOf
  <2>5. ~Verdict(n)
    BY <2>4 DEF Verdict
  <2>6. ~\E d \in Devices : Match(d)
    BY <2>1 DEF Match
  <2> QED BY <1>5, <2>1, <2>2, <2>5, <2>6
<1>8. CASE HitNegative
  <2>1. /\ pc = "second" /\ result' = FALSE /\ idx \in 1..Len(list)
        /\ list[idx].neg /\ NegativeMatch(dev, list[idx])
    BY <1>1, <1>8 DEF HitNegative, Return, TypeOK
  <2>2. ~Verdict(Len(list))
    BY <2>1 DEF Verdict, Excluded
  <2>3. Len(list) \in start..Len(list)
    BY <1>2
  <2>4. ~\E d \in Devices : Match(d)
    BY <2>1 DEF Match
  <2> QED BY <1>5, <2>1, <2>2, <2>3, <2>4
<1>9. CASE EndSecond
  <2>1. /\ pc = "second" /\ result' = TRUE /\ idx = Len(list) + 1
        /\ seen = matched /\ ~Excluded(idx - 1) /\ dev.subsystem # Unknown
    BY <1>1, <1>2, <1>9 DEF EndSecond, Return, TypeOK, SecondInv, KnownInv
  <2>2. PICK n \in start..Len(list) : ScoreOf(n)
    BY <1>1, <2>1 DEF ScoresInv
  <2>3. ~Excluded(n)
    <3>1. idx - 1 = Len(list) /\ \A i \in 1..n : i \in 1..Len(list)
      BY <1>2, <2>1
    <3> QED BY <2>1, <3>1 DEF Excluded
  <2>4. Verdict(n)
    BY <2>1, <2>2, <2>3 DEF ScoreOf, Verdict
  <2>5. ~\E d \in Devices : Match(d)
    BY <2>1 DEF Match
  <2> QED BY <1>5, <2>1, <2>2, <2>4, <2>5
<1>10. \/ \E d \in Devices : Match(d)
       \/ pc = "done" /\ ~\E d \in Devices : Match(d)
       \/ Scores \/ HitNegative \/ EndSecond
  BY DEF Next, Walk, vars, walk, FilterAdd, SkipNegative, ScorePositive,
         EndFirst, SkipPositive, PassNegative
<1> QED BY <1>4, <1>6, <1>7, <1>8, <1>9, <1>10

(* The initial states satisfy the invariant.                               *)
LEMMA InitInv == Init => FilterInv
<1> SUFFICES ASSUME Init PROVE FilterInv
  OBVIOUS
<1>1. TypeOK
  <2>1. list \in Seq(Entries) /\ Len(list) = 0
    BY DEF Init
  <2>2. idx \in 1..Len(list) + 1 /\ start \in 0..Len(list)
    BY <2>1 DEF Init
  <2>3. Len(list) <= MaxEntries /\ failures \in 0..MaxFailures
    BY <2>1, FilterAssumption DEF Init
  <2> QED BY <2>1, <2>2, <2>3 DEF Init, TypeOK
<1> QED
  BY <1>1 DEF Init, FilterInv, TemporaryReleased, PositivesFailClosed,
              FirstInv, ScoresInv, SecondInv, KnownInv, DoneInv

(* The invariant holds in every reachable state.                           *)
THEOREM FilterSafe == Spec => []FilterInv
<1>1. FilterInv /\ [Next]_vars => FilterInv'
  BY TypeStep, FirstStep, ScoresStep, SecondStep, KnownStep, ReleasedStep,
     FailClosedStep, DoneStep DEF FilterInv
<1> QED BY InitInv, <1>1, PTL DEF Spec

(* The walk stays within the list and the scores within the types, however *)
(* entries are added under it.                                             *)
THEOREM FilterTypeCorrect == Spec => []TypeOK
<1>1. FilterInv => TypeOK
  BY DEF FilterInv
<1> QED BY <1>1, FilterSafe, PTL

(* The answer of the unlocked walk is the one of the list at some moment   *)
(* of the call, if every temporary device could be made.                   *)
THEOREM MatchLinearizable == Spec => []MatchIsLinearizable
<1>1. FilterInv => MatchIsLinearizable
  <2> SUFFICES ASSUME FilterInv, pc = "done", failures = 0
               PROVE  \E n \in start..Len(list) :
                          result = Wanted(SubSeq(list, 1, n), dev)
    BY DEF MatchIsLinearizable
  <2>1. TypeOK /\ Len(list) \in Nat
    BY LenProperties DEF FilterInv, TypeOK
  <2>2. PICK n \in start..Len(list) : result <=> Verdict(n)
    BY DEF FilterInv, DoneInv
  <2>3. n \in 0..Len(list)
    BY <2>1 DEF TypeOK
  <2>4. Verdict(n) <=> Wanted(SubSeq(list, 1, n), dev)
    BY <2>1, <2>3, WantedIsVerdict
  <2>5. result \in BOOLEAN
    BY <2>1 DEF TypeOK
  <2>6. Wanted(SubSeq(list, 1, n), dev) \in BOOLEAN
    BY DEF Wanted
  <2>7. result = Wanted(SubSeq(list, 1, n), dev)
    BY <2>2, <2>4, <2>5, <2>6
  <2> QED BY <2>7
<1> QED BY <1>1, FilterSafe, PTL

(* Even when the temporary device cannot be made, a device is accepted     *)
(* only if every type asked for at the call matches.                       *)
THEOREM FailsClosed == Spec => []PositivesFailClosed
<1>1. FilterInv => PositivesFailClosed
  BY DEF FilterInv
<1> QED BY <1>1, FilterSafe, PTL

(* The temporary device is given back on every way out.                    *)
THEOREM ReleasesTemporary == Spec => []TemporaryReleased
<1>1. FilterInv => TemporaryReleased
  BY DEF FilterInv
<1> QED BY <1>1, FilterSafe, PTL

=============================================================================

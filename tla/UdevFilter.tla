----------------------------- MODULE UdevFilter -----------------------------
(***************************************************************************)
(* The filters of a monitor or an enumerator (src/udev-filter.c): a list   *)
(* to which entries are appended, and udev_filter_match, which walks it    *)
(* twice to decide whether a device is wanted.                             *)
(*                                                                         *)
(* The walk takes one entry per step, because the monitor's thread walks   *)
(* the list without a lock while the application may append to it          *)
(* (udev_monitor_filter_add_match_subsystem_devtype).  An append is one    *)
(* step: an entry is complete before STAILQ_INSERT_TAIL links it.          *)
(*                                                                         *)
(* A pattern is the set of the strings that fnmatch(3) finds it to match.  *)
(***************************************************************************)
EXTENDS Integers, Sequences, FiniteSets

CONSTANTS
    Devices,      \* the devices udev_filter_match may be asked about
    Entries,      \* the entries that may be added
    NoValue,      \* a null pointer: a value, a devtype or a name left out
    Unknown,      \* UNKNOWN_SUBSYSTEM
    MaxEntries,   \* bound: entries in the list
    MaxFailures   \* bound: failed allocations of the temporary device

Types == {"SUBSYSTEM", "SYSNAME", "PROPERTY", "TAG", "SYSATTR"}

(* What has to be looked up in a device object, made for the purpose.      *)
ListTypes == {"PROPERTY", "TAG", "SYSATTR"}

ASSUME FilterAssumption ==
    /\ \A e \in Entries : e.type \in Types /\ e.neg \in BOOLEAN
    /\ MaxEntries \in Nat /\ MaxFailures \in Nat

VARIABLES
    list,     \* the entries, in the order in which they were added
    pc,       \* where the walk is: idle, first, scores, second, done
    dev,      \* the device asked about
    idx,      \* the entry the walk looks at next
    seen,     \* the types of which a positive entry was seen
    matched,  \* the types of which one matched
    ud,       \* the temporary device exists
    result,   \* what udev_filter_match returned last
    start,    \* how long the list was when the walk began
    failures  \* how many times the temporary device could not be made

vars == <<list, pc, dev, idx, seen, matched, ud, result, start, failures>>
walk == <<pc, dev, idx, seen, matched, ud, result, start, failures>>

(* fnmatch_list: some name matches, with a value if and only if the entry  *)
(* has one, and then a matching value.                                     *)
ListMatches(pairs, e) ==
    \E p \in pairs :
        /\ p[1] \in e.expr
        /\ (e.value = NoValue) = (p[2] = NoValue)
        /\ e.value # NoValue => p[2] \in e.value

(* The list of a device in which an entry of type t is looked up.  Nothing *)
(* ever puts a tag on a device.                                            *)
Attributes(d, t) ==
    CASE t = "PROPERTY" -> d.props
      [] t = "SYSATTR" -> d.sysattrs
      [] OTHER -> {}

(* Whether an entry matches a device, as the two walks test it.            *)
PositiveMatch(d, e) ==
    CASE e.type = "SUBSYSTEM" ->
           /\ d.subsystem \in e.expr
           /\ e.value # NoValue => d.devtype # NoValue /\ d.devtype \in e.value
      [] e.type = "SYSNAME" -> d.sysname \in e.expr
      [] OTHER -> ListMatches(Attributes(d, e.type), e)

NegativeMatch(d, e) ==
    \/ e.type = "SUBSYSTEM" /\ d.subsystem \in e.expr
    \/ e.type = "SYSATTR" /\ ListMatches(d.sysattrs, e)

(* udev_filter_match as a relation between a list and a device: nothing is *)
(* known of a device of an unknown subsystem; of each type for which there *)
(* are positive entries one has to match; no negative entry may match.     *)
Wanted(l, d) ==
    LET entries == {l[i] : i \in DOMAIN l}
        positive(t) == {e \in entries : ~e.neg /\ e.type = t}
    IN /\ d.subsystem # Unknown
       /\ \A t \in Types :
              positive(t) # {} => \E e \in positive(t) : PositiveMatch(d, e)
       /\ ~\E e \in entries : e.neg /\ NegativeMatch(d, e)

-----------------------------------------------------------------------------

Init ==
    /\ list = <<>>
    /\ pc = "idle" /\ dev \in Devices /\ idx = 1
    /\ seen = {} /\ matched = {} /\ ud = FALSE
    /\ result = FALSE /\ start = 0 /\ failures = 0

FilterAdd(e) ==
    /\ Len(list) < MaxEntries
    /\ list' = Append(list, e)
    /\ UNCHANGED walk

(* The call; a device of an unknown subsystem is turned away at once.      *)
Match(d) ==
    /\ pc \in {"idle", "done"}
    /\ dev' = d /\ idx' = 1 /\ seen' = {} /\ matched' = {}
    /\ start' = Len(list)
    /\ pc' = IF d.subsystem = Unknown THEN "done" ELSE "first"
    /\ result' = FALSE
    /\ UNCHANGED <<list, ud, failures>>

(* The temporary device is there, is made, or cannot be made.              *)
HaveDevice ==
    \/ ud' = TRUE /\ UNCHANGED failures
    \/ ~ud /\ failures < MaxFailures /\ failures' = failures + 1 /\ ud' = FALSE

SkipNegative ==
    /\ pc = "first" /\ idx <= Len(list) /\ list[idx].neg
    /\ idx' = idx + 1
    /\ UNCHANGED <<list, pc, dev, seen, matched, ud, result, start, failures>>

(* Refuted by MatchIsLinearizable: the last entry of a type decides.       *)
ScoreLastEntry ==
    /\ pc = "first" /\ idx <= Len(list) /\ ~list[idx].neg
    /\ LET e == list[idx]
       IN /\ seen' = seen \cup {e.type}
          /\ IF e.type \in ListTypes THEN HaveDevice
             ELSE UNCHANGED <<ud, failures>>
          /\ matched' =
                 IF PositiveMatch(dev, e) /\ (e.type \in ListTypes => ud')
                 THEN matched \cup {e.type} ELSE matched \ {e.type}
    /\ idx' = idx + 1
    /\ UNCHANGED <<list, pc, dev, result, start>>

(* Refuted by PositivesFailClosed: an entry that cannot be looked up is    *)
(* left out of the score.                                                  *)
ScoreOnlyLookedUp ==
    /\ pc = "first" /\ idx <= Len(list) /\ ~list[idx].neg
    /\ LET e == list[idx]
       IN /\ IF e.type \in ListTypes THEN HaveDevice
             ELSE UNCHANGED <<ud, failures>>
          /\ seen' = IF e.type \in ListTypes => ud' THEN seen \cup {e.type}
                     ELSE seen
          /\ matched' =
                 IF PositiveMatch(dev, e) /\ (e.type \in ListTypes => ud')
                 THEN matched \cup {e.type} ELSE matched
    /\ idx' = idx + 1
    /\ UNCHANGED <<list, pc, dev, result, start>>

ScorePositive ==
    /\ pc = "first" /\ idx <= Len(list) /\ ~list[idx].neg
    /\ LET e == list[idx]
       IN /\ seen' = seen \cup {e.type}
          /\ IF e.type \in ListTypes THEN HaveDevice
             ELSE UNCHANGED <<ud, failures>>
          /\ matched' =
                 IF PositiveMatch(dev, e) /\ (e.type \in ListTypes => ud')
                 THEN matched \cup {e.type} ELSE matched
    /\ idx' = idx + 1
    /\ UNCHANGED <<list, pc, dev, result, start>>

EndFirst ==
    /\ pc = "first" /\ idx > Len(list)
    /\ pc' = "scores"
    /\ UNCHANGED <<list, dev, idx, seen, matched, ud, result, start, failures>>

(* out: the temporary device is released.                                  *)
Return(r) == pc' = "done" /\ result' = r /\ ud' = FALSE

(* Refuted by TemporaryReleased: the early exit forgets the device.        *)
ScoresLeak ==
    /\ pc = "scores"
    /\ IF seen = matched
       THEN pc' = "second" /\ idx' = 1 /\ UNCHANGED <<ud, result>>
       ELSE pc' = "done" /\ result' = FALSE /\ UNCHANGED <<ud, idx>>
    /\ UNCHANGED <<list, dev, seen, matched, start, failures>>

Scores ==
    /\ pc = "scores"
    /\ IF seen = matched
       THEN pc' = "second" /\ idx' = 1 /\ UNCHANGED <<ud, result>>
       ELSE Return(FALSE) /\ UNCHANGED idx
    /\ UNCHANGED <<list, dev, seen, matched, start, failures>>

SkipPositive ==
    /\ pc = "second" /\ idx <= Len(list) /\ ~list[idx].neg
    /\ idx' = idx + 1
    /\ UNCHANGED <<list, pc, dev, seen, matched, ud, result, start, failures>>

(* The entry does not match, is of a type no negative entry is tested for, *)
(* or cannot be looked up.                                                 *)
PassNegative ==
    /\ pc = "second" /\ idx <= Len(list) /\ list[idx].neg
    /\ IF list[idx].type = "SYSATTR" THEN HaveDevice
       ELSE UNCHANGED <<ud, failures>>
    /\ NegativeMatch(dev, list[idx]) => list[idx].type = "SYSATTR" /\ ~ud'
    /\ idx' = idx + 1
    /\ UNCHANGED <<list, pc, dev, seen, matched, result, start>>

HitNegative ==
    /\ pc = "second" /\ idx <= Len(list) /\ list[idx].neg
    /\ NegativeMatch(dev, list[idx])
    /\ Return(FALSE)
    /\ UNCHANGED <<list, dev, idx, seen, matched, start, failures>>

EndSecond ==
    /\ pc = "second" /\ idx > Len(list)
    /\ Return(TRUE)
    /\ UNCHANGED <<list, dev, idx, seen, matched, start, failures>>

Walk ==
    \/ SkipNegative \/ ScorePositive \/ EndFirst \/ Scores
    \/ SkipPositive \/ PassNegative \/ HitNegative \/ EndSecond

Next ==
    \/ \E e \in Entries : FilterAdd(e)
    \/ \E d \in Devices : Match(d)
    \/ Walk

Spec == Init /\ [][Next]_vars

-----------------------------------------------------------------------------

TypeOK ==
    /\ list \in Seq(Entries) /\ Len(list) <= MaxEntries
    /\ pc \in {"idle", "first", "scores", "second", "done"}
    /\ dev \in Devices /\ idx \in 1..Len(list) + 1
    /\ matched \subseteq seen /\ seen \subseteq Types
    /\ ud \in BOOLEAN /\ result \in BOOLEAN
    /\ start \in 0..Len(list) /\ failures \in 0..MaxFailures

(* The walk takes no lock and goes through the list twice, and still its   *)
(* answer is the one of the list as it was at some moment of the call:     *)
(* adding a filter while the monitor's thread matches never yields a       *)
(* verdict that no list of filters the application ever set would give.    *)
MatchIsLinearizable ==
    pc = "done" /\ failures = 0 =>
        \E n \in start..Len(list) : result = Wanted(SubSeq(list, 1, n), dev)

(* When the temporary device cannot be made, an entry that asks for an     *)
(* attribute turns the device away; a device is accepted only if every     *)
(* type asked for matches.  (An entry that excludes an attribute is then   *)
(* ignored: the walk breaks off the test and goes on to the next entry.)   *)
PositivesFailClosed ==
    pc = "done" /\ result =>
        \A i \in 1..start : ~list[i].neg =>
            \E j \in 1..Len(list) : /\ ~list[j].neg /\ list[j].type = list[i].type
                                    /\ PositiveMatch(dev, list[j])

(* The temporary device, and its reference to the context, are given back  *)
(* on every way out.                                                       *)
TemporaryReleased == pc \in {"idle", "done"} => ~ud

=============================================================================

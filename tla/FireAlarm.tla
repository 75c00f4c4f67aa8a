------------------------------ MODULE FireAlarm ------------------------------
(***************************************************************************)
(* The fire alarm, src/src/firealarm.c: a thread per level keeps a window  *)
(* of temperatures and a window of their medians and raises alarm_active;  *)
(* main polls that flag and then turns on the alarms, starts a thread for  *)
(* each boom gate and shows a message on the signs without end.            *)
(*                                                                         *)
(* The lists of samples belong to one thread, so one round of its loop is  *)
(* one step.  The sensors are written by none of the programs here: a      *)
(* sample is any temperature (of 16 bits, line 64: the difference of two   *)
(* is within an int).                                                      *)
(***************************************************************************)
EXTENDS Integers, Sequences, FiniteSets, SequencesExt

CONSTANTS
  Levels, Gates,
  MEDIAN_WINDOW, TEMPCHANGE_WINDOW,
  Temperatures

ASSUME AlarmAssumption ==
  /\ IsFiniteSet(Levels) /\ IsFiniteSet(Gates)
  /\ MEDIAN_WINDOW \in Nat \ {0} /\ TEMPCHANGE_WINDOW \in Nat \ {0}
  /\ Temperatures \subseteq Int

VARIABLES
  templist, medianlist,  \* of each level, newest first
  alarm_active,
  main_pc,               \* progress of main
  alarm,                 \* levels whose alarm is on
  letter,                \* display of the signs: which letter of the message, 0 for none
  bgate_s,               \* the low byte of each gate's state, s
  opener,                \* progress of openboomgate for each gate
  raw                    \* history: the samples that reach into the windows

alarmVars ==
  <<templist, medianlist, alarm_active, main_pc, alarm, letter, bgate_s, opener, raw>>
sampleVars == <<templist, medianlist, alarm_active, raw>>

(* The other programs store an enumeration, C, O, R, L = 0, 1, 2, 3. *)
GateC == 0
GateMoves == {2, 3}
charC == 67
charR == 82

evacmessage == 9   \* the length of "EVACUATE "

AlarmInit ==
  /\ templist = [l \in Levels |-> <<>>] /\ medianlist = templist /\ raw = templist
  /\ alarm_active = FALSE
  /\ main_pc = "poll" /\ alarm = {} /\ letter = 0
  /\ bgate_s = [g \in Gates |-> GateC]
  /\ opener = [g \in Gates |-> "none"]

-----------------------------------------------------------------------------
(* A definition marked "Mutant" is a bug that could be made in place of the *)
(* definition after it; it is used only to show that a property notices.   *)

(* Mutant: the node before which the list ends is kept. *)
deletenodesAfter(list, after) ==
  SubSeq(list, 1, IF Len(list) <= after THEN Len(list) ELSE after + 1)

(* Walks to the end of the list and frees what is after that many nodes. *)
deletenodes(list, after) ==
  SubSeq(list, 1, IF Len(list) < after THEN Len(list) ELSE after)

(* qsort: the samples in an order in which each is compared not to be      *)
(* greater than those after it.                                            *)
orders(list, p) == \A i, j \in DOMAIN list : i < j => list[p[i]] <= list[p[j]]
qsort(list) ==
  LET p == CHOOSE p \in Bijection(DOMAIN list, DOMAIN list) : orders(list, p)
  IN  [i \in DOMAIN list |-> list[p[i]]]

(* Mutant: the samples are not sorted well, and the smallest is taken. *)
smallest(list) == qsort(list)[1]

(* The middle of the sorted samples. *)
mediantemp(list) == qsort(list)[(MEDIAN_WINDOW - 1) \div 2 + 1]

(* The medians after a round with these samples. *)
medians(list, old) ==
  IF Len(list) = MEDIAN_WINDOW
  THEN deletenodes(<<mediantemp(list)>> \o old, TEMPCHANGE_WINDOW)
  ELSE old

(* Mutant: 58 degrees are not yet a concern. *)
above58(list) == Cardinality({i \in DOMAIN list : list[i] > 58})

(* Temperatures of 58 degrees and higher. *)
hightemps(list) == Cardinality({i \in DOMAIN list : list[i] >= 58})

(* The two tests of a full window of medians.  They are not made in the    *)
(* rounds before MEDIAN_WINDOW samples are there, but then the window of   *)
(* medians is empty.                                                       *)
raised(list, window) ==
  /\ Len(window) = TEMPCHANGE_WINDOW
  /\ \/ hightemps(window) * 10 >= TEMPCHANGE_WINDOW * 9
     \/ Head(list) - Last(window) >= 8

(* One round of tempmonitor. *)
Sample(l, temp) ==
  LET list == deletenodes(<<temp>> \o templist[l], MEDIAN_WINDOW)
      window == medians(list, medianlist[l])
  IN /\ templist' = [templist EXCEPT ![l] = list]
     /\ medianlist' = [medianlist EXCEPT ![l] = window]
     /\ alarm_active' = (alarm_active \/ raised(list, window))
     /\ raw' = [raw EXCEPT ![l] =
                  LET all == <<temp>> \o @
                      reach == MEDIAN_WINDOW + TEMPCHANGE_WINDOW - 1
                  IN  SubSeq(all, 1, IF Len(all) < reach THEN Len(all) ELSE reach)]
     /\ UNCHANGED <<main_pc, alarm, letter, bgate_s, opener>>

-----------------------------------------------------------------------------
(* main.  The levels are taken in some order. *)
Poll ==
  /\ main_pc = "poll" /\ alarm_active
  /\ main_pc' = "alarms"
  /\ UNCHANGED <<sampleVars, alarm, letter, bgate_s, opener>>

TriggerAlarms ==
  /\ main_pc = "alarms"
  /\ IF alarm # Levels
     THEN \E l \in Levels \ alarm : alarm' = alarm \cup {l} /\ UNCHANGED main_pc
     ELSE main_pc' = "gates" /\ UNCHANGED alarm
  /\ UNCHANGED <<sampleVars, letter, bgate_s, opener>>

CreateOpeners ==
  /\ main_pc = "gates"
  /\ opener' = [g \in Gates |-> "test"]
  /\ main_pc' = "message"
  /\ UNCHANGED <<sampleVars, alarm, letter, bgate_s>>

(* The next letter on every sign, and the first one after the last.  The   *)
(* broadcast that goes with it wakes cars at the signs, which are not in   *)
(* this module.                                                            *)
ShowLetter ==
  /\ main_pc = "message"
  /\ letter' = (letter % evacmessage) + 1
  /\ UNCHANGED <<sampleVars, main_pc, alarm, bgate_s, opener>>

closed == charC

(* openboomgate: a closed gate is told to rise; then, or for any other     *)
(* state, wait until somebody signals the gate.                            *)
OpenGate(g) ==
  /\ opener[g] = "test"
  /\ bgate_s' = [bgate_s EXCEPT ![g] = IF @ = closed THEN charR ELSE @]
  /\ opener' = [opener EXCEPT ![g] = "wait"]
  /\ UNCHANGED <<sampleVars, main_pc, alarm, letter>>

(* boom_gate_open and boom_gate_close of the manager, under the same mutex: *)
(* the state, and a signal that may wake the opener instead of a car.      *)
MoveGate(g, s) ==
  /\ bgate_s' = [bgate_s EXCEPT ![g] = s]
  /\ \/ opener' = [opener EXCEPT ![g] = IF @ = "wait" THEN "test" ELSE @]
     \/ UNCHANGED opener
  /\ UNCHANGED <<sampleVars, main_pc, alarm, letter>>

AlarmNext ==
  \/ \E l \in Levels, t \in Temperatures : Sample(l, t)
  \/ Poll \/ TriggerAlarms \/ CreateOpeners \/ ShowLetter
  \/ \E g \in Gates : OpenGate(g) \/ \E s \in GateMoves : MoveGate(g, s)

AlarmSpec == AlarmInit /\ [][AlarmNext]_alarmVars

-----------------------------------------------------------------------------
(* The type of every variable. *)
AlarmTypeOK ==
  /\ \A l \in Levels :
       /\ templist[l] \in Seq(Temperatures) /\ Len(templist[l]) <= MEDIAN_WINDOW
       /\ medianlist[l] \in Seq(Temperatures) /\ Len(medianlist[l]) <= TEMPCHANGE_WINDOW
       /\ raw[l] \in Seq(Temperatures)
  /\ alarm_active \in BOOLEAN
  /\ main_pc \in {"poll", "alarms", "gates", "message"}
  /\ alarm \subseteq Levels /\ letter \in 0..evacmessage
  /\ bgate_s \in [Gates -> 0..255]
  /\ opener \in [Gates -> {"none", "test", "wait"}]

(* What the windows are meant to say, from the samples alone.  The median  *)
(* of MEDIAN_WINDOW samples ending i samples ago is defined by its rank.   *)
RefMedian(s, i) ==
  LET window == i..i + MEDIAN_WINDOW - 1
  IN  CHOOSE t \in Temperatures :
        LET below == Cardinality({j \in window : s[j] < t})
            upto == Cardinality({j \in window : s[j] <= t})
        IN  below <= (MEDIAN_WINDOW - 1) \div 2 /\ upto > (MEDIAN_WINDOW - 1) \div 2

Evidence(s) ==
  /\ Len(s) = MEDIAN_WINDOW + TEMPCHANGE_WINDOW - 1
  /\ \/ 10 * Cardinality({i \in 1..TEMPCHANGE_WINDOW : RefMedian(s, i) >= 58})
          >= 9 * TEMPCHANGE_WINDOW
     \/ s[1] - RefMedian(s, TEMPCHANGE_WINDOW) >= 8

(* A round raises the alarm exactly when the last samples of its level are *)
(* evidence, and no step takes it back: windows kept by pushing and        *)
(* cutting lists lose no sample and keep none too long.                    *)
AlarmOnEvidence ==
  [][/\ alarm_active => alarm_active'
     /\ \A l \in Levels :
          raw'[l] # raw[l] => alarm_active' = (alarm_active \/ Evidence(raw'[l]))]_alarmVars

(* "One noisy sample": if all samples but one are equal, below 58 degrees, *)
(* the alarm is raised only while the odd one is the newest.  The median   *)
(* hides it once it is older, although the rate of rise (line 120) takes   *)
(* the newest sample as it comes.                                          *)
oddOneOut(s, i) ==
  \A j, k \in DOMAIN s \ {i} : s[j] = s[k] /\ s[j] < 58
GlitchIsNewest ==
  [][(~alarm_active /\ alarm_active')
       => \E l \in Levels : /\ raw'[l] # raw[l]
                            /\ \A i \in 2..Len(raw'[l]) : ~oddOneOut(raw'[l], i)]_alarmVars

(* "Open up all boom gates" (src/src/firealarm.c:175): a gate whose thread *)
(* has done its work and waits is not closed.                              *)
AlarmOpensGates == \A g \in Gates : opener[g] = "wait" => bgate_s[g] # GateC
=============================================================================

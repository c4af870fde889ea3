-------------------------------- MODULE Fdp --------------------------------
(***************************************************************************)
(* The feedback-directed prefetcher of labs/lab4 (prefetcher/fdp.l2c_pref):*)
(* a GHB prefetcher whose distance and degree follow a counter, which the  *)
(* measured accuracy and lateness of the prefetches move up and down.      *)
(*                                                                         *)
(* The metrics are ChampSim's counters pf_issued, pf_useful and pf_late;   *)
(* here each sample sees any accuracy and lateness.                        *)
(***************************************************************************)
EXTENDS Ghb

CONSTANTS
  Wrap,             \* 2^64 in the code: unsigned sums wrap there
  COUNTER_MAX_VAL   \* 5 in the code

COUNTER_MIN_VAL == 1

ASSUME FdpAssumption ==
  /\ Wrap \in Nat /\ COUNTER_MAX_VAL \in Nat \ {0} /\ COUNTER_MAX_VAL < Wrap
  /\ Aggressivness = 0 .. COUNTER_MAX_VAL - 1

VARIABLE counter

fdpVars == <<vars, counter>>

accuracy_state_t == {"ACCURACY_LOW", "ACCURACY_MEDIUM", "ACCURACY_HIGH"}
lateness_state_t == {"LATE", "NOT_LATE"}

\* counter_update, an unsigned table: -1 is stored as Wrap - 1
counter_update ==
  [a \in accuracy_state_t |-> [l \in lateness_state_t |->
     IF l = "NOT_LATE" THEN 0 ELSE IF a = "ACCURACY_LOW" THEN Wrap - 1 ELSE 1]]

\* mutant: the sum does not wrap
UpdatedWide(a, l) ==
  LET c == (counter + counter_update[a][l]) % (COUNTER_MAX_VAL + 1)
  IN IF c < COUNTER_MIN_VAL THEN COUNTER_MAX_VAL ELSE c

\* the counter after a sample with the given accuracy and lateness
Updated(a, l) ==
  LET c == ((counter + counter_update[a][l]) % Wrap) % (COUNTER_MAX_VAL + 1)
  IN IF c < COUNTER_MIN_VAL THEN COUNTER_MAX_VAL ELSE c
-----------------------------------------------------------------------------
FdpInit == Init /\ counter = MIDDLE_OF_THE_ROAD + 1

\* mutant: the correction is not stored in the counter
SampleRaw(a, l) ==
  /\ counter' = ((counter + counter_update[a][l]) % Wrap) % (COUNTER_MAX_VAL + 1)
  /\ SetAggressiveness(Updated(a, l) - 1)

\* the first part of l2c_prefetcher_operate: a sample is due, or not
Sample(a, l) == counter' = Updated(a, l) /\ SetAggressiveness(counter' - 1)
NoSample == UNCHANGED <<level, counter>>

\* the second part: a load trains the GHB, other calls return
LoadAtLevel(addr, ip) == Load(addr, ip, prefetch_distance', prefetch_degree')
NoLoad == UNCHANGED <<it, ghb, ghb_head_idx, pf_addr_list, owner>>

FdpNext ==
  /\ NoSample \/ \E a \in accuracy_state_t, l \in lateness_state_t : Sample(a, l)
  /\ NoLoad \/ \E addr \in Addr, ip \in Ip : LoadAtLevel(addr, ip)

FdpSpec == FdpInit /\ [][FdpNext]_fdpVars
-----------------------------------------------------------------------------
FdpTypeOK == TypeOK /\ counter \in COUNTER_MIN_VAL .. COUNTER_MAX_VAL

\* The remainder of an unsigned sum that may have wrapped still moves the
\* level by one at most and stops at the highest; only from the lowest level it
\* goes to the highest at once.
StepsByOne ==
  [][counter' - counter \in {-1, 0, 1} \/ (counter = COUNTER_MIN_VAL /\ counter' = COUNTER_MAX_VAL)]_fdpVars
=============================================================================

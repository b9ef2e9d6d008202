-------------------------- MODULE ScreenshotStore --------------------------
(***************************************************************************)
(* The folder where the MCP server keeps copies of the screenshots it has  *)
(* shown (journeydrive_mcp/server.py: _save_screenshot,                    *)
(* _prune_old_screenshots).                                                *)
(*                                                                         *)
(* A file is named for the time of its copy, a counter for collisions, and *)
(* the format; the oldest are those first in the order of names.  The      *)
(* clock ticks as it likes, two copies in one tick or none, and may be set *)
(* back.  What is not a copy of this server, a folder's own files, is in   *)
(* the order too.  A file's content is the number of the copy.             *)
(***************************************************************************)
EXTENDS Integers, FiniteSets, Functions

CONSTANTS
  Formats,    \* "png", "jpeg"
  Strangers,  \* the names of other files
  MaxClock,   \* bounds: the clock,
  MaxCopies   \* and the copies saved, below ten: names sort as text

ASSUME BoundsAssumption == MaxClock \in Nat \ {0} /\ MaxCopies \in Nat

ASSUME FormatsAssumption == Formats \subseteq {"png", "jpeg"}

Name == [time : 0..MaxClock + 1, n : 0..MaxCopies, fmt : Formats]

ASSUME StrangersAssumption ==
  /\ IsFiniteSet(Strangers)
  /\ Strangers \subseteq [time : {0, MaxClock + 1}, n : {0}, fmt : Formats]

VARIABLES
  files,   \* the folder: a function from names to the number of the copy
  clock,   \* 1..MaxClock
  copies,  \* how many have been saved, or tried to be
  wentBack \* the clock has been set back

storeVars == <<files, clock, copies, wentBack>>

StoreTypeOK ==
  /\ files \in [DOMAIN files -> 0..MaxCopies]
  /\ DOMAIN files \subseteq Name
  /\ clock \in 1..MaxClock
  /\ copies \in 0..MaxCopies
  /\ wentBack \in BOOLEAN

StoreInit ==
  /\ \E S \in SUBSET Strangers : files = [a \in S |-> 0]
  /\ clock = 1 /\ copies = 0 /\ wentBack = FALSE

ClockTicks ==
  /\ clock < MaxClock
  /\ clock' = clock + 1
  /\ UNCHANGED <<files, copies, wentBack>>

ClockIsSetBack ==
  /\ clock > 1
  /\ clock' \in 1..clock - 1
  /\ wentBack' = TRUE
  /\ UNCHANGED <<files, copies>>

-----------------------------------------------------------------------------
(* "T.jpeg" < "T.png" < "T_1.jpeg" < "T_1.png" < "T_2.jpeg", as text.      *)
Before_FormatFirst(a, b) ==
  \/ a.fmt = "jpeg" /\ b.fmt = "png"
  \/ a.fmt = b.fmt /\ (a.time < b.time \/ (a.time = b.time /\ a.n < b.n))

Before(a, b) ==
  \/ a.time < b.time
  \/ a.time = b.time /\ a.n < b.n
  \/ a.time = b.time /\ a.n = b.n /\ a.fmt = "jpeg" /\ b.fmt = "png"

Oldest(names, k) == {a \in names : Cardinality({b \in names : Before(b, a)}) < k}

Excess(names, cap) ==
  IF cap <= 0 \/ Cardinality(names) <= cap THEN 0 ELSE Cardinality(names) - cap

(* The counter is the first for which there is no such file.               *)
IsFree_Always(fmt, n) == n = 0

IsFree(fmt, n) ==
  /\ [time |-> clock, n |-> n, fmt |-> fmt] \notin DOMAIN files
  /\ \A i \in 0..n - 1 : [time |-> clock, n |-> i, fmt |-> fmt] \in DOMAIN files

(* The folder with one more copy, without the first of names.              *)
With(name) ==
  [a \in DOMAIN files \cup {name} |-> IF a = name THEN copies + 1 ELSE files[a]]
Without(f, names) == Restrict(f, DOMAIN f \ names)

Counts == copies < MaxCopies /\ copies' = copies + 1 /\ UNCHANGED <<clock, wentBack>>

(* The copy is written, and the excess removed one by one; an OSError ends *)
(* that anywhere, in the copy too: one that is written in part stays.      *)
Saves(fmt, cap) ==
  /\ Counts
  /\ \E n \in 0..MaxCopies :
       /\ IsFree(fmt, n)
       /\ LET new == With([time |-> clock, n |-> n, fmt |-> fmt])
          IN \E k \in 0..Excess(DOMAIN new, cap) :
               files' = Without(new, Oldest(DOMAIN new, k))

(* The folder cannot be made, or the copy not be written at all.           *)
CannotSave == Counts /\ UNCHANGED files
=============================================================================

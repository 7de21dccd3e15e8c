------------------------------ MODULE EasyLog ------------------------------
(***************************************************************************)
(* easy_log: LogSum files that are written in turn, RecordSum records in   *)
(* each, by whichever thread holds the mutex.  Records are numbered in the *)
(* order in which write_record got the mutex.  my_log_init opens a file    *)
(* twice, to clear it and to append to it; either can fail.  The process   *)
(* can be restarted, and then begins again with file 0.                    *)
(***************************************************************************)
EXTENDS Integers, Sequences, FiniteSets, SequencesExt

CONSTANTS
  RecordSum,     (* record_sum                                              *)
  LogSum,        (* log_sum                                                 *)
  CountModulo,   (* the counter is unsigned and wraps: 2^32 in the code     *)
  MaxRecords,    (* bound on the records handed in                          *)
  MaxRestarts    (* bound on the restarts                                   *)

ASSUME LogAssumption ==
  /\ RecordSum \in Nat \ {0}
  /\ LogSum \in Nat \ {0}
  /\ CountModulo \in Nat /\ CountModulo > RecordSum * LogSum
  /\ MaxRecords \in Nat
  /\ MaxRestarts \in Nat

VARIABLES
  file,          (* the records in each file                                *)
  p_file,        (* whether the current file is open                        *)
  log_index,
  record_count,
  last,          (* history: how many records were handed in                *)
  dropped,       (* history: those handed in while no file was open         *)
  uncleared,     (* history: the files that could not be cleared            *)
  first,         (* history: the first record of this process               *)
  restarts

vars == <<file, p_file, log_index, record_count, last, dropped, uncleared, first, restarts>>

(* my_log_init: the file k after it, of those that were there before. *)
Cleared(files, k, cleared) == IF cleared THEN [files EXCEPT ![k] = <<>>] ELSE files
NotCleared(k, cleared) == IF cleared THEN uncleared \ {k} ELSE uncleared \cup {k}

(* The constructor. *)
Start(files, cleared, opened) ==
  /\ file' = Cleared(files, 0, cleared)
  /\ p_file' = opened
  /\ log_index' = 0
  /\ record_count' = 0

Init ==
  /\ file = [k \in 0 .. LogSum - 1 |-> <<>>]
  /\ p_file \in BOOLEAN
  /\ log_index = 0 /\ record_count = 0
  /\ last = 0 /\ dropped = {} /\ uncleared = {} /\ first = 1 /\ restarts = 0

Restart(cleared, opened) ==
  /\ restarts < MaxRestarts
  /\ restarts' = restarts + 1
  /\ Start(file, cleared, opened)
  /\ uncleared' = NotCleared(0, cleared)
  /\ first' = last + 1
  /\ UNCHANGED <<last, dropped>>

(* The record is appended and flushed, if there is a file. *)
WriteTo(files, k, opened) ==
  /\ last' = last + 1
  /\ file' = IF opened THEN [files EXCEPT ![k] = Append(@, last + 1)] ELSE files
  /\ dropped' = IF opened THEN dropped ELSE dropped \cup {last + 1}

Counted == (record_count + 1) % CountModulo
Rotates == Counted % RecordSum = 0

WriteRecord ==
  /\ last < MaxRecords /\ ~Rotates
  /\ record_count' = Counted
  /\ WriteTo(file, log_index, p_file)
  /\ UNCHANGED <<p_file, log_index, uncleared, first, restarts>>

(* Mutant: behind the last file the same one is taken again.               *)
RotateStaysLast(cleared, opened) ==
  /\ last < MaxRecords /\ Rotates
  /\ record_count' = Counted
  /\ LET next == IF log_index + 1 = LogSum THEN log_index ELSE log_index + 1
     IN  /\ log_index' = next
         /\ p_file' = opened
         /\ uncleared' = NotCleared(next, cleared)
         /\ WriteTo(Cleared(file, next, cleared), next, opened)
  /\ UNCHANGED <<first, restarts>>

(* Mutant: the record goes to the file whose name has no number.           *)
RotateWritesFirst(cleared, opened) ==
  /\ last < MaxRecords /\ Rotates
  /\ record_count' = Counted
  /\ LET next == (log_index + 1) % LogSum
     IN  /\ log_index' = next
         /\ p_file' = opened
         /\ uncleared' = NotCleared(next, cleared)
         /\ WriteTo(Cleared(file, next, cleared), 0, opened)
  /\ UNCHANGED <<first, restarts>>

Rotate(cleared, opened) ==
  /\ last < MaxRecords /\ Rotates
  /\ record_count' = Counted
  /\ LET next == (log_index + 1) % LogSum
     IN  /\ log_index' = next
         /\ p_file' = opened
         /\ uncleared' = NotCleared(next, cleared)
         /\ WriteTo(Cleared(file, next, cleared), next, opened)
  /\ UNCHANGED <<first, restarts>>

Next ==
  \/ WriteRecord
  \/ \E cleared, opened \in BOOLEAN : Rotate(cleared, opened) \/ Restart(cleared, opened)

Spec == Init /\ [][Next]_vars
-----------------------------------------------------------------------------
Held == UNION {ToSet(file[k]) : k \in DOMAIN file}

(* The files always hold the newest records since the start: at least those
   of LogSum - 1 files, of which one may be short, the first, whose opening
   counts as a record, or the one in which the counter wraps.  Only records
   that came while the file of the last rotation could not be opened are
   missing (write_record). *)
Shortest ==
  IF CountModulo % RecordSum = 0 THEN RecordSum - 1
  ELSE CHOOSE n \in {RecordSum - 1, CountModulo % RecordSum} :
         n <= RecordSum - 1 /\ n <= CountModulo % RecordSum

Kept == (LogSum - 2) * RecordSum + Shortest + 1

NewestKept ==
  \A r \in first .. last : r > last - Kept => r \in Held \cup dropped

(* How many rotations ago the file k was the current one. *)
Age(k) == (log_index - k) % LogSum

(* What a file holds of this process, unless it could not be cleared. *)
OfThisProcess(k) ==
  IF k \in uncleared THEN {} ELSE {r \in ToSet(file[k]) : r >= first}

(* A record is in one file, once, and the files read from the one after the
   current one round to the current one give the records in their order,
   apart from the files that could not be cleared, and those an earlier
   process left; between two of them only dropped ones are missing. *)
FilesInOrder ==
  /\ \A k \in DOMAIN file : \A i, j \in DOMAIN file[k] : i < j => file[k][i] < file[k][j]
  /\ \A j, k \in DOMAIN file : j # k => ToSet(file[j]) \cap ToSet(file[k]) = {}
  /\ \A j, k \in DOMAIN file : Age(j) > Age(k) =>
       \A x \in OfThisProcess(j), y \in OfThisProcess(k) : x < y
  /\ uncleared = {} =>
       \A x, y \in UNION {OfThisProcess(k) : k \in DOMAIN file} :
         x .. y \subseteq Held \cup dropped
=============================================================================

------------------------------- MODULE BoundedFile -------------------------------
(***************************************************************************)
(* readBoundedFile of src/authored-input.js: the capture of an input file  *)
(* through one descriptor, bounded by a byte limit that the file may cross *)
(* while it is read, with assertActive() around every file operation.      *)
(*                                                                         *)
(* The bytes of the file are abstracted to their number: `size` bytes have *)
(* been captured of a file that is `length` bytes long at this moment.     *)
(***************************************************************************)
EXTENDS Integers

CONSTANTS
  Limit,      \* the byte limit of the capture
  Block,      \* the largest buffer of one read
  MaxLength   \* the length up to which other programs grow the file: bounds the model

ASSUME LimitAssumption == Limit \in Nat /\ Block \in Nat \ {0} /\ MaxLength \in Nat

VARIABLES
  file,       \* what the name leads to: "regular", "other" or "absent"
  length,     \* the length of the file now
  watched,    \* the caller passed its own assertActive
  silenced,   \* the output of the run has failed
  pc,         \* the file operation that is awaited
  size,       \* bytes captured
  verdict,    \* what the finally block will let through: "none", "bytes", "code"
  result      \* "pending", "bytes", "code" (the caller's error code), "failure" (the
              \* output failure itself) or "close_error"

vars == <<file, length, watched, silenced, pc, size, verdict, result>>

Init ==
  /\ file \in {"regular", "other", "absent"}
  /\ length \in 0..MaxLength
  /\ watched \in BOOLEAN
  /\ silenced = FALSE
  /\ pc = "idle"
  /\ size = 0
  /\ verdict = "none"
  /\ result = "pending"

\* assertActive() would throw.
Inactive == watched /\ silenced

Smaller(a, b) == IF a < b THEN a ELSE b

\* Mutant of Request: the buffer ends exactly at the limit.
RequestToLimit == Smaller(Block, Limit - size)

\* Mutant of Request: the limit is checked only against what stat() said.
RequestBlock == Block

\* The length of the next buffer: one byte beyond the limit shows a file that grew.
Request == Smaller(Block, Limit + 1 - size)

Leave(with) == pc' = "closing" /\ verdict' = with /\ UNCHANGED result

Environs == <<file, length, watched, silenced>>

--------------------------------------------------------------------------------
(* The function, from one await to the next.                                  *)

\* assertActive() is outside the try block here: its error is not renamed.
Begin ==
  /\ pc = "idle"
  /\ IF Inactive THEN pc' = "settled" /\ result' = "failure"
                 ELSE pc' = "opening" /\ UNCHANGED result
  /\ UNCHANGED <<size, verdict, Environs>>

\* open() gives a descriptor, and assertActive() is asked before stat() starts.
Open ==
  /\ pc = "opening"
  /\ \/ /\ file # "absent"
        /\ IF Inactive THEN Leave("code") ELSE pc' = "stating" /\ UNCHANGED <<verdict, result>>
     \/ pc' = "settled" /\ result' = "code" /\ UNCHANGED verdict
  /\ UNCHANGED <<size, Environs>>

\* stat() of the descriptor: only a regular file within the limit is read.
Stat ==
  /\ pc = "stating"
  /\ \/ /\ ~ Inactive /\ file = "regular" /\ length <= Limit
        /\ pc' = "reading"
        /\ UNCHANGED <<verdict, result>>
     \/ Leave("code")
  /\ UNCHANGED <<size, Environs>>

\* Mutant of Read: the output failure is noticed only after the loop.
ReadOn ==
  /\ pc = "reading"
  /\ \/ /\ length > size /\ Request > 0
        /\ \E n \in 1..Smaller(Request, length - size) :
             /\ size' = size + n
             /\ IF size' > Limit THEN Leave("code") ELSE UNCHANGED <<pc, verdict, result>>
     \/ length <= size /\ Leave("bytes") /\ UNCHANGED size
  /\ UNCHANGED Environs

\* Mutant of Read: the bytes are handed over although the output has failed.
ReadHandsOver ==
  /\ pc = "reading"
  /\ \/ /\ length > size /\ Request > 0
        /\ \E n \in 1..Smaller(Request, length - size) :
             IF Inactive THEN Leave("code") /\ UNCHANGED size
             ELSE /\ size' = size + n
                  /\ IF size' > Limit THEN Leave("code") ELSE UNCHANGED <<pc, verdict, result>>
     \/ length <= size /\ Leave("bytes") /\ UNCHANGED size
  /\ UNCHANGED Environs

\* Mutant of Read: a read that finds no byte is repeated.
ReadPolls ==
  /\ pc = "reading"
  /\ length > size /\ Request > 0
  /\ \E n \in 1..Smaller(Request, length - size) :
       /\ size' = size + n
       /\ IF size' > Limit THEN Leave("code") ELSE UNCHANGED <<pc, verdict, result>>
  /\ UNCHANGED Environs

\* One read() at the current position: no byte means the end of the file, or an
\* empty buffer; fewer bytes than asked for are an answer too.  The loop goes on
\* with the next read only if the output is healthy and the limit is kept.
Read ==
  /\ pc = "reading"
  /\ \/ /\ length > size /\ Request > 0
        /\ \E n \in 1..Smaller(Request, length - size) :
             IF Inactive THEN Leave("code") /\ UNCHANGED size
             ELSE /\ size' = size + n
                  /\ IF size' > Limit THEN Leave("code") ELSE UNCHANGED <<pc, verdict, result>>
     \/ /\ length <= size \/ Request <= 0
        /\ Leave(IF Inactive THEN "code" ELSE "bytes")
        /\ UNCHANGED size
     \/ Leave("code") /\ UNCHANGED size
  /\ UNCHANGED Environs

\* The finally block; an error of close() replaces what the block would let through.
Close ==
  /\ pc = "closing"
  /\ pc' = "settled"
  /\ result' \in {verdict, "close_error"}
  /\ UNCHANGED <<size, verdict, Environs>>

\* Another program appends to the file, or cuts it off.
Resize ==
  /\ length' \in 0..MaxLength
  /\ UNCHANGED <<file, watched, silenced, pc, size, verdict, result>>

OutputFails ==
  /\ silenced' = TRUE
  /\ UNCHANGED <<file, length, watched, pc, size, verdict, result>>

--------------------------------------------------------------------------------
Step == Begin \/ Open \/ Stat \/ Read \/ Close

Next == Step \/ Resize \/ OutputFails

Spec == Init /\ [][Next]_vars

\* A file operation in flight completes; a regular file always answers a read.
FairSpec == Spec /\ WF_vars(Step)

--------------------------------------------------------------------------------
(* Properties.                                                                *)

TypeOK ==
  /\ file \in {"regular", "other", "absent"}
  /\ length \in Nat
  /\ watched \in BOOLEAN /\ silenced \in BOOLEAN
  /\ pc \in {"idle", "opening", "stating", "reading", "closing", "settled"}
  /\ size \in Nat
  /\ verdict \in {"none", "bytes", "code"}
  /\ result \in {"pending", "bytes", "code", "failure", "close_error"}

\* Never more than one byte over the limit is read, however fast the file grows,
\* and what is handed to the caller is within the limit.
CaptureIsBounded ==
  /\ size <= Limit + 1
  /\ result = "bytes" => size <= Limit

\* What keeps it so: a read starts only within the limit, nothing is answered before
\* the finally block, and that block has something to let through.
CaptureInv ==
  /\ TypeOK
  /\ CaptureIsBounded
  /\ pc \in {"idle", "opening", "stating"} => size = 0
  /\ pc = "reading" => size <= Limit
  /\ verdict = "bytes" => size <= Limit
  /\ result = "bytes" => verdict = "bytes"
  /\ pc # "settled" => result = "pending"
  /\ pc = "closing" => verdict # "none"

\* A capture that is accepted has reached the end the file had at its last read: a
\* file that grew past the limit is refused and never handed over cut off.
NeverCutOff ==
  [][verdict' = "bytes" /\ verdict # "bytes" => size >= length]_vars

\* After an output failure no further file operation of the capture starts.
NoOperationSilenced ==
  [][Inactive /\ pc' \in {"opening", "stating", "reading"} => pc' = pc /\ size' = size]_vars

\* A capture that loses the race with an output failure does not hand over bytes:
\* it was the last read that could still find the output healthy.
NoBytesSilenced ==
  [][Inactive /\ verdict # "bytes" => verdict' # "bytes"]_vars

\* What no step of a capture does: accept a file cut off, or work on for a failed output.
CaptureDiscipline == NeverCutOff /\ NoOperationSilenced /\ NoBytesSilenced

\* The capture ends even if the file grows for ever.
CaptureEnds == pc = "opening" ~> pc = "settled"
================================================================================

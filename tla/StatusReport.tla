----------------------------- MODULE StatusReport -----------------------------
(***************************************************************************)
(* stats_send_statistics (src/src/stats.c): the answer to a "status" line. *)
(* The report is written with snprintf into a buffer_t that is not grown,  *)
(* then sent to the client on its non-blocking socket, then freed.  It is  *)
(* made while stats_process_lines works on the buffer of the session,      *)
(* which Buffer models and which waits meanwhile.                          *)
(*                                                                         *)
(* What the lines of a report say is left out: a report is the sequence of *)
(* the lengths of its lines, which depend on the keys of the backends and  *)
(* on the digits of the counters.  A byte of the report is <<line,         *)
(* position>>, and the last of a line is its newline.                      *)
(***************************************************************************)
EXTENDS Buffer

CONSTANTS
    Reports,     \* the reports that may be asked for
    ReportSize   \* MAX_UDP_LENGTH

ASSUME ReportAssumption ==
    /\ ReportSize \in Nat \ {0}
    /\ Reports \subseteq Seq(Nat \ {0})

VARIABLES
    stage,     \* "idle", or what stats_send_statistics does: "writing", "sending"
    lines,     \* the report that is being made
    next,      \* its next line to be written
    response,  \* the buffer of the report
    reply      \* history: the bytes of the report the socket took

statusVars == <<stage, lines, next, response, reply>>
allVars == <<vars, statusVars>>

ReportLine(r, k) == [j \in 1..r[k] |-> <<k, j>>]

(* The first k lines of report r, for every k. *)
FirstLines(r) ==
    LET w[k \in 0..Len(r)] == IF k = 0 THEN <<>> ELSE w[k - 1] \o ReportLine(r, k)
    IN  w
Report == FirstLines(lines)[Len(lines)]

(* The byte snprintf ends its output with. *)
NUL == <<0, 0>>

create_buffer(n) == [mem |-> [i \in 1..n |-> Junk], size |-> n, head |-> 0, tail |-> 0]
NoBuffer == create_buffer(0)

StatusInit ==
    /\ Init
    /\ stage = "idle"
    /\ lines = <<>> /\ next = 1 /\ reply = <<>>
    /\ response = NoBuffer

-----------------------------------------------------------------------------
(* A status line is read.  Without memory for the report there is none. *)
Ask(r) ==
    /\ stage = "idle" /\ user = "session" /\ ~freed
    /\ \/ /\ stage' = "writing"
          /\ lines' = r /\ next' = 1
          /\ response' = create_buffer(ReportSize)
       \/ UNCHANGED <<stage, lines, next, response>>
    /\ UNCHANGED <<vars, reply>>

(* Mutant of snprintf_produced: what was cut is produced all the same. *)
ProducedCut(b, line) ==
    LET n == IF Len(line) < buffer_spacecount(b) THEN Len(line) ELSE buffer_spacecount(b)
    IN  buffer_produced(b, SubSeq(line, 1, n))

(* Mutant of snprintf_produced: the room for the NUL is taken off twice. *)
ProducedWithSpare(b, line) ==
    IF Len(line) + 1 < buffer_spacecount(b) THEN buffer_produced(b, line) ELSE b

(***************************************************************************)
(* buffer_produced(response, snprintf(tail, space, ...)): snprintf writes  *)
(* a NUL after the line, if need be in place of its end, and returns the   *)
(* length without it.  buffer_produced refuses what exceeds the block, but *)
(* not a line that just filled it and lost its newline to the NUL.         *)
(***************************************************************************)
snprintf_produced(b, line) ==
    LET space == buffer_spacecount(b) IN
    CASE Len(line) < space -> buffer_produced(b, line)
      [] Len(line) = space -> buffer_produced(b, Append(SubSeq(line, 1, Len(line) - 1), NUL))
      [] Len(line) > space -> b

WriteLine ==
    /\ stage = "writing"
    /\ next <= Len(lines)
    /\ response' = snprintf_produced(response, ReportLine(lines, next))
    /\ next' = next + 1
    /\ UNCHANGED <<vars, stage, lines, reply>>

AllWritten ==
    /\ stage = "writing"
    /\ next > Len(lines)
    /\ stage' = "sending"
    /\ UNCHANGED <<vars, lines, next, response, reply>>

(* send() takes n bytes, and the loop goes on with the rest. *)
SendSome(n) ==
    /\ stage = "sending"
    /\ n \in 1..buffer_datacount(response)
    /\ reply' = reply \o SubSeq(Contents(response), 1, n)
    /\ response' = buffer_consume(response, n)
    /\ UNCHANGED <<vars, stage, lines, next>>

delete_buffer ==
    /\ stage' = "idle"
    /\ lines' = <<>> /\ next' = 1 /\ reply' = <<>>
    /\ response' = NoBuffer
    /\ UNCHANGED vars

(* send() fails, also because the socket is full, and ends the report. *)
SendFails == stage = "sending" /\ buffer_datacount(response) > 0 /\ delete_buffer

SendDone == stage = "sending" /\ buffer_datacount(response) = 0 /\ delete_buffer

(* The buffer of the session, or of a client, is used at any other time. *)
BufferStep == stage = "idle" /\ Next /\ UNCHANGED statusVars

StatusNext ==
    \/ BufferStep
    \/ \E r \in Reports : Ask(r)
    \/ WriteLine
    \/ AllWritten
    \/ \E n \in 1..buffer_datacount(response) : SendSome(n)
    \/ SendFails
    \/ SendDone

StatusSpec == StatusInit /\ [][StatusNext]_allVars

-----------------------------------------------------------------------------
(* What the client has and will get of the report as long as send works. *)
Answer == reply \o Contents(response)

(***************************************************************************)
(* Also when the report outgrows its buffer, the client reads whole lines  *)
(* in their order: a line for which there is no room is left out and never *)
(* cut, no byte is sent that was not written, and only the last byte of a  *)
(* report that fills the buffer can be a NUL in place of a newline.        *)
(***************************************************************************)
Follows(a, b) ==
    \/ a[1] = b[1] /\ b[2] = a[2] + 1
    \/ a[1] < b[1] /\ a[2] = lines[a[1]] /\ b[2] = 1

WholeLines ==
    /\ \A i \in 1..Len(Answer) :
         \/ \E k \in 1..Len(lines) : \E j \in 1..lines[k] : Answer[i] = <<k, j>>
         \/ Answer[i] = NUL /\ i = ReportSize
    /\ Answer # <<>> =>
         /\ Answer[1][2] = 1 \/ Answer[1] = NUL
         /\ \A i \in 1..(Len(Answer) - 1) :
              Answer[i + 1] # NUL => Follows(Answer[i], Answer[i + 1])
         /\ LET last == Answer[Len(Answer)] IN last = NUL \/ last[2] = lines[last[1]]

(***************************************************************************)
(* A report that is shorter than its buffer reaches the client as a whole, *)
(* down to the empty line that marks its end, however many calls of send   *)
(* it takes: the loop ends early only when a send fails.                   *)
(***************************************************************************)
ReportComplete ==
    stage = "sending" /\ Len(Report) < ReportSize => Answer = Report
=============================================================================

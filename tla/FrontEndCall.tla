---------------------------- MODULE FrontEndCall ----------------------------
(***************************************************************************)
(* callFrontEndForWorker (pkg/epp/handlers/streamingserver.go): the request *)
(* to the Dynamo FrontEnd and the parser of the event stream it answers     *)
(* with, line by line, until an event carries a worker_instance_id.         *)
(***************************************************************************)
EXTENDS Naturals, Sequences

CONSTANTS
    Id,         \* worker ids
    None, Raw,  \* no id; a text that is not an id the FrontEnd sent
    MaxLines    \* bound: lines of the stream

ASSUME CallAssumption == None # Raw /\ {None, Raw} \cap Id = {} /\ MaxLines \in Nat

VARIABLES
    call,      \* where the call is: "post", "read", or returned "ok", "error"
    eventName, \* the event is named worker_instance_id
    dataBuf,   \* values of the event's data lines, blank ones left out
    commentBuf,\* the same of its comment lines
    result,    \* the id returned
    done,      \* history: how the stream ended: "", "DONE", "EOF", "fault"
    lines,     \* lines read
    passed,    \* history: an event that a blank line ended had an id or a [DONE]
    current,   \* history: the lines of the event being read
    partial    \* history: a last line without its newline

buffers == <<eventName, dataBuf, commentBuf>>
callVars == <<call, buffers, result, done, lines, passed, current, partial>>

\* The value of a data or comment line: a quoted id, a JSON object with the
\* id at its root or in its annotations, the beginning of such an object with
\* the id, the rest of one, [DONE], a blank, or some other text than quotes.
Value == [form : {"quoted", "object", "begin"}, id : Id]
         \cup [form : {"rest", "DONE", "blank", "other"}, id : {None}]
Line == [field : {"data", "comment"}, value : Value]
        \cup [field : {"event"}, value : {"worker_instance_id", "another"}]
        \cup [field : {"ignored"}, value : {"another"}]
NoLine == [field |-> "ignored", value |-> "another"]

CallTypeOK ==
    /\ call \in {"post", "read", "ok", "error"}
    /\ eventName \in BOOLEAN
    /\ dataBuf \in Seq(Value) /\ commentBuf \in Seq(Value)
    /\ result \in Id \cup {None, Raw} /\ (result # None <=> call = "ok")
    /\ done \in {"", "DONE", "EOF", "fault"}
    /\ lines \in 0..MaxLines /\ passed \in BOOLEAN
    /\ current \in Seq(Line) /\ partial \in Line

-----------------------------------------------------------------------------
(* What an event means, said of its lines: the reference.                   *)

IsValue(l) == l.field \in {"data", "comment"} /\ l.value.form # "blank"
Values(ev) == {i \in DOMAIN ev : IsValue(ev[i])}

\* The event's name is the one its last event line gives.
IsWorkerEvent(ev) ==
    \E i \in DOMAIN ev :
        /\ ev[i] = [field |-> "event", value |-> "worker_instance_id"]
        /\ \A j \in i+1..Len(ev) : ev[j].field # "event"

\* The format the code expects (streamingserver.go:669): an event named
\* worker_instance_id with a single value, a quoted id.
Carries(ev, id) ==
    /\ IsWorkerEvent(ev)
    /\ \E i \in DOMAIN ev : Values(ev) = {i} /\ ev[i].value = [form |-> "quoted", id |-> id]

EndsStream(ev) == \E i \in DOMAIN ev : Values(ev) = {i} /\ ev[i].value.form = "DONE"

Decides(ev) == EndsStream(ev) \/ \E id \in Id : Carries(ev, id)

-----------------------------------------------------------------------------
(* flushEvent.                                                              *)

IsDone(buf) == Len(buf) = 1 /\ buf[1].form = "DONE"

\* The id of a named event: a quoted string, or else the text as it is.
Named(candidate) ==
    IF Len(candidate) = 1 /\ candidate[1].form = "quoted" THEN candidate[1].id ELSE Raw

\* The id in a JSON object, on one data line or spread over two.
IsObject(data) ==
    \/ Len(data) = 1 /\ data[1].form = "object"
    \/ Len(data) = 2 /\ data[1].form = "begin" /\ data[2].form = "rest"

InObject(data) == IF IsObject(data) THEN data[1].id ELSE None

\* Mutant: only data lines are looked at.
FlushedData(data, comment) ==
    IF eventName /\ data # <<>> THEN Named(data) ELSE InObject(data)

Flushed(data, comment) ==
    IF eventName /\ data # <<>> THEN Named(data)
    ELSE IF eventName /\ comment # <<>> THEN Named(comment)
    ELSE InObject(data)

\* flushEvent and its caller: what the call returns, if it returns.
flushEvent ==
    LET finished == IsDone(dataBuf) \/ IsDone(commentBuf)
        id == IF finished THEN None ELSE Flushed(dataBuf, commentBuf) IN
    /\ dataBuf' = <<>> /\ commentBuf' = <<>>
    /\ result' = id
    /\ call' = IF id # None THEN "ok" ELSE IF finished THEN "error" ELSE "read"
    /\ done' = IF finished THEN "DONE" ELSE done

-----------------------------------------------------------------------------
\* The POST fails, or the response is not 2xx, or not an event stream.
Post ==
    /\ call = "post"
    /\ \/ call' = "read" /\ UNCHANGED done
       \/ call' = "error" /\ done' = "fault"
    /\ UNCHANGED <<buffers, result, lines, passed, current, partial>>

\* A line that is not blank.
Store(buf, value) == IF value.form = "blank" THEN buf ELSE Append(buf, value)

ReadLine(l) ==
    /\ call = "read" /\ lines < MaxLines /\ lines' = lines + 1
    /\ eventName' = IF l.field = "event" THEN l.value = "worker_instance_id" ELSE eventName
    /\ dataBuf' = IF l.field = "data" THEN Store(dataBuf, l.value) ELSE dataBuf
    /\ commentBuf' = IF l.field = "comment" THEN Store(commentBuf, l.value) ELSE commentBuf
    /\ current' = Append(current, l)
    /\ UNCHANGED <<call, result, done, passed, partial>>

\* Mutant: the name of an event outlives it.
BlankLineKeepsName ==
    /\ call = "read" /\ lines < MaxLines /\ lines' = lines + 1
    /\ flushEvent
    /\ IF call' = "read" THEN passed' = (passed \/ Decides(current)) /\ current' = <<>>
                       ELSE UNCHANGED <<passed, current>>
    /\ UNCHANGED <<eventName, partial>>

\* A blank line ends the event.
BlankLine ==
    /\ call = "read" /\ lines < MaxLines /\ lines' = lines + 1
    /\ flushEvent
    /\ IF call' = "read"
       THEN eventName' = FALSE /\ passed' = (passed \/ Decides(current)) /\ current' = <<>>
       ELSE UNCHANGED <<eventName, passed, current>>
    /\ UNCHANGED partial

\* EOF: what ReadString returns with it, a line without its newline, is
\* dropped; the event so far is flushed.
EndOfFile ==
    /\ call = "read"
    /\ partial' \in Line
    /\ dataBuf' = <<>> /\ commentBuf' = <<>>
    /\ result' = IF IsDone(dataBuf) \/ IsDone(commentBuf) THEN None
                 ELSE Flushed(dataBuf, commentBuf)
    /\ call' = IF result' # None THEN "ok" ELSE "error"
    /\ done' = "EOF"
    /\ UNCHANGED <<eventName, lines, passed, current>>

\* A failing read, or the timeout of 10 seconds.
ReadFails ==
    /\ call = "read"
    /\ call' = "error" /\ done' = "fault"
    /\ UNCHANGED <<buffers, result, lines, passed, current, partial>>

-----------------------------------------------------------------------------
CallInit ==
    /\ call = "post" /\ eventName = FALSE /\ dataBuf = <<>> /\ commentBuf = <<>>
    /\ result = None /\ done = "" /\ lines = 0 /\ passed = FALSE /\ current = <<>>
    /\ partial = NoLine

CallNext ==
    \/ Post \/ BlankLine \/ EndOfFile \/ ReadFails
    \/ \E l \in Line : ReadLine(l)

CallSpec == CallInit /\ [][CallNext]_callVars

-----------------------------------------------------------------------------
(* Properties.                                                              *)

\* No event that a blank line ended, and no whole event before EOF, has its id
\* or its [DONE] passed over; the first of them decides.
NoEventPassedOver ==
    /\ ~passed
    /\ call \in {"ok", "error"} /\ done # "fault" =>
        \A id \in Id : Carries(current, id) => result = id

\* An id that is returned stands in the event at which the call returns, and
\* a text that is no id comes from a worker_instance_id event that has not the
\* expected format.
ResultIsOfLastEvent ==
    /\ result \in Id => \E i \in DOMAIN current :
                            IsValue(current[i]) /\ current[i].value.id = result
    /\ result = Raw => IsWorkerEvent(current) /\ \A id \in Id : ~Carries(current, id)

\* streamingserver.go:746: a pending event is processed on EOF.
PendingProcessed ==
    done = "EOF" => \A id \in Id : Carries(Append(current, partial), id) => result = id
=============================================================================

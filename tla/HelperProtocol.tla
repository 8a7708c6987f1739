--------------------------- MODULE HelperProtocol ---------------------------
(***************************************************************************)
(* A client's session with the helper: Session at one end of the pipe,     *)
(* serve_client at the other.  The two ends may be of different builds.    *)
(*                                                                         *)
(* The pipe is two streams of fields, each read by the end that expects    *)
(* it: <<"proto", byte>>, <<"op", code>>, <<"off", offset>>, <<"len", n>>, *)
(* <<"path", p>> one way, <<"head", status, n>> and <<"body", payload>>    *)
(* the other.  A field that is read as another is a session out of step.   *)
(* Either end may go away at any time, with a part of its last message     *)
(* written; what a dying service wrote may be lost with it.                *)
(***************************************************************************)
EXTENDS Integers, Sequences

CONSTANTS
    Paths,          \* records [len, utf8, named, holds]
    Offsets,        \* where reads begin
    Sizes,          \* how much the caller asks for, in units
    MAX_PATH,       \* the service's limits
    MAX_READ,
    ClientMaxPath,  \* the client's build has limits of its own
    ClientMaxRead,
    MAX_MESSAGE,
    TextLen,        \* the length of the messages the service sends
    Protocols,      \* the protocols the client may speak
    MaxCalls,       \* bound: calls in one session
    None, Lost, Refused

ASSUME LimitsAreNat ==
    /\ {MAX_PATH, MAX_READ, ClientMaxPath, ClientMaxRead, MAX_MESSAGE, TextLen} \subseteq Nat
    /\ Sizes \subseteq Nat
    /\ TextLen > 0
ASSUME PathsAreRecords ==
    \A p \in Paths :
        /\ p.len \in Nat
        /\ {p.utf8, p.named} \subseteq BOOLEAN
        /\ p.holds \in {"nothing", "error", "other", "btrfs"}
\* The service's messages are its version, an error of the system, or a path
\* and a few words.
ASSUME MessagesAreShort == TextLen <= MAX_MESSAGE

PROTOCOL == 1
OPEN == 1
READ == 2
UPDATE == 3

OK == 0
NOT_FOUND == 1
REFUSED == 2
ERROR == 3

VARIABLES
    c2s, s2c,  \* the two directions of the pipe
    speaks,    \* the protocol byte of the client's build
    knows,     \* the operations of the service's build
    cpc,       \* the client: "idle", "head", "body", "gone"
    call,      \* the client's call in progress
    head,      \* the header it has read
    result,    \* what the last call returned
    calls,     \* how many calls it has made
    spc,       \* the service's thread: "proto", "op", "data", "closed"
    file,      \* serve_client's `file`
    answer     \* what the service decided for the call (history)

client == <<cpc, call, head, result, calls>>
server == <<spc, file, answer>>
builds == <<speaks, knows>>
vars == <<c2s, s2c, builds, client, server>>

-----------------------------------------------------------------------------
(* Answers: a status and a payload. *)

Text(status, words) == [status |-> status, body |-> <<words>>]
Empty == [status |-> OK, body |-> <<>>]
Data(f, off, n) == IF n = 0 THEN Empty ELSE [status |-> OK, body |-> <<f, off, n>>]

\* What open_partition makes of a path: it must name a partition, exist, be
\* readable and hold a superblock.
OpenPartition(p) ==
    IF ~p.named THEN Text(REFUSED, "not a partition")
    ELSE CASE p.holds = "nothing" -> Text(NOT_FOUND, "no such partition")
           [] p.holds = "error" -> Text(ERROR, "system error")
           [] p.holds = "other" -> Text(REFUSED, "not btrfs")
           [] p.holds = "btrfs" -> Empty

OpenAnswer(p, f) ==
    IF f # None THEN Text(ERROR, "already open")
    ELSE IF ~p.utf8 THEN Text(ERROR, "not UTF-8")
    ELSE OpenPartition(p)

\* A read may be short at the end of the device, and may fail.
ReadAnswers(off, n, f) ==
    IF n > MAX_READ THEN {Text(ERROR, "too long")}
    ELSE IF f = None THEN {Text(ERROR, "not open")}
    ELSE {Data(f, off, k) : k \in 0..n} \cup {Text(ERROR, "system error")}

UpdateAnswers == {Text(OK, "installed"), Text(OK, "up to date"), Text(ERROR, "update failed")}

Unknown == Text(ERROR, "unknown operation")
Version == Text(OK, "version")
WrongProtocol == Text(ERROR, "another protocol")
PathTooLong == Text(ERROR, "path too long")

\* The answers after which serve_client returns.
Final(a) == a \in {Unknown, WrongProtocol, PathTooLong, Text(OK, "installed")}

Opened(p, f, a) == IF a = Empty THEN p ELSE f

PayloadLen(a) ==
    CASE Len(a.body) = 0 -> 0
      [] Len(a.body) = 1 -> TextLen
      [] Len(a.body) = 3 -> a.body[3]
NeedsBodyAlways(n) == TRUE \* A mutation: an empty payload is waited for.
NeedsBody(n) == n > 0

Header(a) == <<"head", a.status, PayloadLen(a)>>
Payload(a) == IF PayloadLen(a) > 0 THEN <<<<"body", a.body>>>> ELSE <<>>

-----------------------------------------------------------------------------
(* The client: Session *)

MayCall == cpc = "idle" /\ calls < MaxCalls

\* A request is written in one write_all.  It fails if the service is gone
\* (the reply to it would not come either).
Request(c, fields) ==
    /\ MayCall
    /\ call' = c
    /\ calls' = calls + 1
    /\ result' = None
    /\ c2s' = c2s \o fields
    /\ cpc' = "head"
    /\ UNCHANGED <<head, s2c, builds, server>>

StartFields == <<<<"proto", speaks>>>>
OpenFields(p) == <<<<"op", OPEN>>, <<"len", p.len>>, <<"path", p>>>>
ReadFields(off, n) == <<<<"op", READ>>, <<"off", off>>, <<"len", n>>>>
UpdateFields == <<<<"op", UPDATE>>>>

Start ==
    /\ calls = 0
    /\ Request([op |-> "start", proto |-> speaks], StartFields)

Open(p) ==
    /\ calls > 0
    /\ p.len <= ClientMaxPath
    /\ Request([op |-> "open", path |-> p], OpenFields(p))

OpenTooLong(p) ==
    /\ MayCall
    /\ calls > 0
    /\ p.len > ClientMaxPath
    /\ calls' = calls + 1
    /\ result' = Refused
    /\ UNCHANGED <<c2s, s2c, builds, cpc, call, head, server>>

ReadAt(off, size) ==
    LET n == IF size < ClientMaxRead THEN size ELSE ClientMaxRead IN
    /\ calls > 0
    /\ Request([op |-> "read", off |-> off, len |-> n], ReadFields(off, n))

Update ==
    /\ calls > 0
    /\ Request([op |-> "update"], UpdateFields)

Return(r) ==
    /\ result' = r
    /\ call' = None
    /\ head' = None
    /\ answer' = None
    /\ cpc' = "idle"

\* A reply is refused, its payload unread, if it is longer than the call takes.
TooLong(h) ==
    IF call.op = "read" /\ h[2] = OK THEN h[3] > call.len ELSE h[3] > MAX_MESSAGE

GetHead ==
    /\ cpc = "head"
    /\ s2c # <<>>
    /\ s2c' = Tail(s2c)
    /\ LET h == Head(s2c) IN
        IF TooLong(h) THEN Return(Lost)
        ELSE IF NeedsBody(h[3])
        THEN cpc' = "body" /\ head' = h /\ UNCHANGED <<call, result, answer>>
        ELSE Return([status |-> h[2], body |-> <<>>])
    /\ UNCHANGED <<c2s, builds, calls, spc, file>>

GetBody ==
    /\ cpc = "body"
    /\ s2c # <<>>
    /\ s2c' = Tail(s2c)
    /\ Return([status |-> head[2], body |-> Head(s2c)[2]])
    /\ UNCHANGED <<c2s, builds, calls, spc, file>>

\* The pipe has ended before the reply has.
LoseService ==
    /\ cpc \in {"head", "body"}
    /\ s2c = <<>>
    /\ spc = "closed"
    /\ Return(Lost)
    /\ UNCHANGED <<c2s, s2c, builds, calls, spc, file>>

\* The session is dropped.
Leave ==
    /\ cpc = "idle"
    /\ cpc' = "gone"
    /\ UNCHANGED <<c2s, s2c, builds, call, head, result, calls, server>>

\* The client's process ends, perhaps with a request half written.
ClientDies ==
    /\ cpc # "gone"
    /\ cpc' = "gone"
    /\ \/ UNCHANGED c2s
       \/ /\ cpc = "idle"
          /\ calls > 0
          /\ \E p \in Paths, k \in 1..2 : c2s' = c2s \o SubSeq(OpenFields(p), 1, k)
    /\ UNCHANGED <<s2c, builds, call, head, result, calls, server>>

-----------------------------------------------------------------------------
(* The service: serve_client *)

\* The service replies.  Closes says whether serve_client then returns.
Reply(a, rest, closes) ==
    /\ c2s' = rest
    /\ s2c' = s2c \o <<Header(a)>> \o Payload(a)
    /\ answer' = IF call = None THEN None ELSE a
    /\ spc' = IF closes THEN "closed" ELSE "op"
    /\ UNCHANGED <<builds, client>>

\* The next field, if it has arrived.
Field(i) == c2s[i][2]
Arrived(n) == Len(c2s) >= n
From(n) == SubSeq(c2s, n, Len(c2s))
NextOp(op) == spc = "op" /\ Arrived(1) /\ Field(1) = op /\ op \in knows

Handshake ==
    /\ spc = "proto"
    /\ Arrived(1)
    /\ LET a == IF Field(1) = PROTOCOL THEN Version ELSE WrongProtocol
       IN  Reply(a, From(2), Final(a))
    /\ UNCHANGED file

ServeLongPath ==
    /\ NextOp(OPEN)
    /\ Arrived(2)
    /\ Field(2) > MAX_PATH
    /\ Reply(PathTooLong, From(3), TRUE)
    /\ UNCHANGED file

\* A mutation: a second OPEN is answered before its path has been read.
AfterOpenUnread == IF file # None THEN From(3) ELSE From(4)
AfterOpen == From(4)

ServeOpen ==
    /\ NextOp(OPEN)
    /\ Arrived(3)
    /\ Field(2) <= MAX_PATH
    /\ LET a == OpenAnswer(Field(3), file) IN
        /\ Reply(a, AfterOpen, FALSE)
        /\ file' = Opened(Field(3), file, a)

\* The header and the data of a read are two writes: see WriteData.
ServeRead ==
    /\ NextOp(READ)
    /\ Arrived(3)
    /\ \E a \in ReadAnswers(Field(2), Field(3), file) :
        IF a.status = OK
        THEN /\ c2s' = From(4)
             /\ s2c' = Append(s2c, Header(a))
             /\ answer' = IF call = None THEN None ELSE a
             /\ spc' = "data"
             /\ UNCHANGED <<builds, client>>
        ELSE Reply(a, From(4), FALSE)
    /\ UNCHANGED file

WriteData ==
    /\ spc = "data"
    /\ spc' = "op"
    /\ s2c' = IF answer = None THEN s2c ELSE s2c \o Payload(answer)
    /\ UNCHANGED <<c2s, builds, client, file, answer>>

NeverClosing(a) == FALSE \* A mutation: the session that updated stays.
ClosingAfter(a) == Final(a)

ServeUpdate ==
    /\ NextOp(UPDATE)
    /\ \E a \in UpdateAnswers : Reply(a, From(2), ClosingAfter(a))
    /\ UNCHANGED file

ServeUnknown ==
    /\ spc = "op"
    /\ Arrived(1)
    /\ Field(1) \notin knows
    /\ Reply(Unknown, From(2), TRUE)
    /\ UNCHANGED file

\* How many fields the message at the head of the stream has.
Wanted ==
    CASE spc = "proto" -> 1
      [] spc = "data" -> 0
      [] spc = "op" ->
            IF ~Arrived(1) THEN 1
            ELSE IF Field(1) = OPEN THEN (IF Arrived(2) /\ Field(2) > MAX_PATH THEN 2 ELSE 3)
            ELSE IF Field(1) = READ THEN 3
            ELSE 1

SeesEnd == ~Arrived(Wanted)

\* The client is gone and nothing, or half a request, is left of it.
ServeEnd ==
    /\ cpc = "gone"
    /\ spc \in {"proto", "op"}
    /\ SeesEnd
    /\ spc' = "closed"
    /\ UNCHANGED <<c2s, s2c, builds, client, file, answer>>

\* A write to a client that is gone fails, and ends the session.
WriteFails ==
    /\ cpc = "gone"
    /\ spc \in {"op", "data"}
    /\ spc' = "closed"
    /\ UNCHANGED <<c2s, s2c, builds, client, file, answer>>

\* The service's process ends (STOP, a restart onto an update, a crash).
ServiceDies ==
    /\ spc # "closed"
    /\ spc' = "closed"
    /\ \E k \in 0..Len(s2c) : s2c' = SubSeq(s2c, 1, k)
    /\ UNCHANGED <<c2s, builds, client, file, answer>>

-----------------------------------------------------------------------------
Init ==
    /\ c2s = <<>>
    /\ s2c = <<>>
    /\ speaks \in Protocols
    /\ knows \in {{OPEN, READ}, {OPEN, READ, UPDATE}}
    /\ cpc = "idle"
    /\ call = None
    /\ head = None
    /\ result = None
    /\ calls = 0
    /\ spc = "proto"
    /\ file = None
    /\ answer = None

ClientCalls ==
    \/ Start
    \/ \E p \in Paths : Open(p) \/ OpenTooLong(p)
    \/ \E off \in Offsets, size \in Sizes : ReadAt(off, size)
    \/ Update

ClientReads == GetHead \/ GetBody \/ LoseService

Serve ==
    \/ Handshake
    \/ ServeLongPath \/ ServeOpen
    \/ ServeRead \/ WriteData
    \/ ServeUpdate
    \/ ServeUnknown
    \/ ServeEnd

Next ==
    \/ ClientCalls \/ ClientReads \/ Leave \/ ClientDies
    \/ Serve \/ WriteFails \/ ServiceDies

Spec == Init /\ [][Next]_vars

\* A thread that has something to read reads it: nothing else is scheduled.
\* Calls and deaths may never come.
FairSpec == Spec /\ WF_vars(ClientReads) /\ WF_vars(Serve)

-----------------------------------------------------------------------------
(* Properties *)

\* Whatever the calls, their order, the errors and the two builds, each end
\* reads every message from its first byte: the next field in each stream is
\* one its reader expects there.  serve_client must consume exactly the
\* request it answers, and Session exactly the reply (helper.rs:361).
InStep ==
    /\ (spc = "op" /\ c2s # <<>>) => c2s[1][1] = "op"
    /\ (spc = "proto" /\ c2s # <<>>) => c2s[1][1] = "proto"
    /\ (cpc = "head" /\ s2c # <<>>) => s2c[1][1] = "head"
    /\ (cpc = "body" /\ s2c # <<>>) => s2c[1][1] = "body"
    /\ (cpc = "idle" /\ spc = "op") => s2c = <<>> /\ c2s = <<>>

CallSet ==
    [op : {"start"}, proto : Protocols]
      \cup [op : {"open"}, path : Paths]
      \cup [op : {"read"}, off : Offsets, len : Nat]
      \cup [op : {"update"}]

Words ==
    {"version", "another protocol", "unknown operation", "path too long", "not a partition",
     "no such partition", "not btrfs", "already open", "not UTF-8", "not open", "too long",
     "installed", "up to date", "update failed", "system error"}

AnswerSet ==
    [status : {OK, NOT_FOUND, REFUSED, ERROR},
     body : (Paths \X Offsets \X Nat) \cup {<<>>} \cup {<<w>> : w \in Words}]

ASSUME NoneIsNoMessage == None \notin CallSet \cup AnswerSet

Outcomes(c, f) ==
    CASE c.op = "start" -> {IF c.proto = PROTOCOL THEN Version ELSE WrongProtocol}
      [] c.op = "open" -> {IF c.path.len > MAX_PATH THEN PathTooLong ELSE OpenAnswer(c.path, f)}
      [] c.op = "read" -> ReadAnswers(c.off, c.len, f)
      [] c.op = "update" -> UpdateAnswers \cup {Unknown}

OpenedBy(c, f, a) == IF c.op = "open" THEN Opened(c.path, f, a) ELSE f

Promise == INSTANCE HelperCalls WITH
    Calls <- CallSet, Outcomes <- Outcomes, Opened <- OpenedBy, Final <- Final,
    ended <- (spc = "closed")

\* The two byte streams implement calls: a call is decided at most once, by
\* the answer to it and no other, is returned that answer, and fails only when
\* the service is gone; the update that installed a build ends the session.
KeepsPromise == Promise!Spec

\* Neither end waits for a field that the other will not send: a call returns,
\* and a client that is gone frees the service's thread, for which a restart
\* onto an update waits.
NeitherWaits ==
    /\ (cpc \in {"head", "body"}) ~> (cpc \notin {"head", "body"})
    /\ (cpc = "gone") ~> (spc = "closed")

=============================================================================

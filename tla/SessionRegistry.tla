--------------------------- MODULE SessionRegistry ---------------------------
(***************************************************************************)
(* The life of telnet sessions (telnet/server.go): every accepted          *)
(* connection has a goroutine, handleClient, that reads a callsign, loads  *)
(* and rewrites the user's record, registers itself (evicting an older     *)
(* session of the same callsign), obeys commands and finally unregisters   *)
(* and saves the record.  A second goroutine per session, writerLoop, is   *)
(* here only what closes the connection after a farewell; its queues are   *)
(* the subject of ClientWriter.                                            *)
(*                                                                         *)
(* Only clientsMutex is shared by the sessions: the record file is read    *)
(* and rewritten without a lock, and rewriting truncates it first.         *)
(***************************************************************************)
EXTENDS Integers, FiniteSets

CONSTANTS
  Sessions,         \* connections, each used once
  Calls,            \* callsigns users log in with
  Filters,          \* what a record keeps for the user, as one value
  DefaultFilter,    \* filter.NewFilter()
  BlankFilter,      \* what an empty file is read as
  MaxConnections,   \* telnet.max_connections, 0 for no limit
  DuplicateMsg,     \* duplicate_login_message is not empty
  ReadErrors,       \* reading a record may fail although it exists
  MaxCommands,      \* bound: commands that change a user's settings
  NoCall, NoSession, NoRecord, Truncated

Records == [filter : Filters, lastLogin : Nat]

ASSUME RegistryConstants ==
  /\ {DefaultFilter, BlankFilter} \subseteq Filters
  /\ MaxConnections \in Nat /\ MaxCommands \in Nat
  /\ DuplicateMsg \in BOOLEAN /\ ReadErrors \in BOOLEAN
  /\ NoCall \notin Calls /\ NoSession \notin Sessions
  /\ NoRecord \notin Records /\ Truncated \notin Records /\ NoRecord # Truncated

VARIABLES
  pc,        \* where each session's handleClient is
  call,      \* Client.callsign
  closed,    \* Client.done is closed and so is the connection
  farewell,  \* a message with closeAfter waits for the writer
  filter,    \* Client.filter
  evicted,   \* the local of registerClient
  buf, ret,  \* locals: the record to be written, where to go on afterwards
  clients,   \* Server.clients
  disk,      \* data/users/<CALL>.yaml
  stopped,   \* Stop has run
  logins,    \* the clock: number of login times taken so far
  commands,  \* number of commands obeyed so far
  newest,    \* history: per callsign, the last session that registered
  wanted,    \* history: per callsign, the settings the user asked for last
  loggedIn   \* history: per callsign, the time of the last login

local == <<call, closed, farewell, filter, evicted>>
writing == <<buf, ret>>
history == <<newest, wanted, loggedIn>>
bounds == <<logins, commands>>
vars == <<pc, local, writing, clients, disk, stopped, bounds, history>>

-----------------------------------------------------------------------------
Registered == {c \in Calls : clients[c] # NoSession}

Goto(s, label) == pc' = [pc EXCEPT ![s] = label]

Init ==
  /\ pc = [s \in Sessions |-> "none"]
  /\ call = [s \in Sessions |-> NoCall]
  /\ closed = [s \in Sessions |-> FALSE]
  /\ farewell = [s \in Sessions |-> FALSE]
  /\ filter = [s \in Sessions |-> DefaultFilter]
  /\ evicted = [s \in Sessions |-> NoSession]
  /\ buf = [s \in Sessions |-> NoRecord]
  /\ ret = [s \in Sessions |-> "none"]
  /\ clients = [c \in Calls |-> NoSession]
  /\ disk \in [Calls -> {NoRecord} \cup [filter : Filters, lastLogin : {0}]]
  /\ stopped = FALSE
  /\ logins = 0 /\ commands = 0
  /\ newest = [c \in Calls |-> NoSession]
  /\ wanted = [c \in Calls |-> IF disk[c] = NoRecord THEN DefaultFilter ELSE disk[c].filter]
  /\ loggedIn = [c \in Calls |-> 0]

\* acceptConnections: the limit counts the registered sessions.
Accept(s) ==
  /\ pc[s] = "none" /\ ~stopped
  /\ MaxConnections > 0 => Cardinality(Registered) < MaxConnections
  /\ Goto(s, "login")
  /\ UNCHANGED <<local, writing, clients, disk, stopped, bounds, history>>

\* A valid callsign is read.
LoginRead(s, c) ==
  /\ pc[s] = "login" /\ ~closed[s]
  /\ call' = [call EXCEPT ![s] = c]
  /\ Goto(s, "touch")
  /\ UNCHANGED <<closed, farewell, filter, evicted, writing, clients, disk, stopped, bounds, history>>

\* Login timeout or read error: the deferred function closes the connection.
LoginFails(s) ==
  /\ pc[s] = "login"
  /\ closed' = [closed EXCEPT ![s] = TRUE]
  /\ Goto(s, "gone")
  /\ UNCHANGED <<call, farewell, filter, evicted, writing, clients, disk, stopped, bounds, history>>

\* LoadUserRecord, with the new record its callers make when there is no file.
\* A truncated file parses without an error.
LoadUserRecord(c) ==
  CASE disk[c] = NoRecord  -> [filter |-> DefaultFilter, lastLogin |-> 0]
    [] disk[c] = Truncated -> [filter |-> BlankFilter, lastLogin |-> 0]
    [] OTHER               -> disk[c]

\* The record is handed to SaveUserRecord; afterwards the handler is at `label`.
StartWrite(s, record, label) ==
  /\ buf' = [buf EXCEPT ![s] = record]
  /\ ret' = [ret EXCEPT ![s] = label]
  /\ Goto(s, "truncate")

\* TouchUserRecordLogin up to the write.
TouchUserRecordLogin(s) ==
  /\ pc[s] = "touch"
  /\ LET record == LoadUserRecord(call[s])
     IN  /\ filter' = [filter EXCEPT ![s] = record.filter]
         /\ StartWrite(s, [record EXCEPT !.lastLogin = logins + 1], "register")
  /\ logins' = logins + 1
  /\ loggedIn' = [loggedIn EXCEPT ![call[s]] = logins + 1]
  /\ UNCHANGED <<call, closed, farewell, evicted, clients, disk, stopped, commands, newest, wanted>>

\* The record cannot be read: the session starts with, and saves, a new filter.
TouchFails(s) ==
  /\ pc[s] = "touch" /\ ReadErrors
  /\ filter' = [filter EXCEPT ![s] = DefaultFilter]
  /\ ret' = [ret EXCEPT ![s] = "register"]
  /\ Goto(s, "save")
  /\ UNCHANGED <<call, closed, farewell, evicted, buf, clients, disk, stopped, bounds, history>>

\* saveFilter builds a new record from the client; of the stored one it keeps
\* the recent addresses only.
saveFilter(s) ==
  /\ pc[s] = "save"
  /\ StartWrite(s, [filter |-> filter[s], lastLogin |-> 0], ret[s])
  /\ UNCHANGED <<local, clients, disk, stopped, bounds, history>>

\* os.WriteFile opens the file with O_TRUNC ...
Truncate(s) ==
  /\ pc[s] = "truncate"
  /\ disk' = [disk EXCEPT ![call[s]] = Truncated]
  /\ Goto(s, "write")
  /\ UNCHANGED <<local, writing, clients, stopped, bounds, history>>

\* ... and writes the record.
Write(s) ==
  /\ pc[s] = "write"
  /\ disk' = [disk EXCEPT ![call[s]] = buf[s]]
  /\ buf' = [buf EXCEPT ![s] = NoRecord]
  /\ ret' = [ret EXCEPT ![s] = "none"]
  /\ Goto(s, ret[s])
  /\ UNCHANGED <<local, clients, stopped, bounds, history>>

\* registerClient, the part under clientsMutex.
registerClient(s) ==
  /\ pc[s] = "register"
  /\ evicted' = [evicted EXCEPT ![s] = clients[call[s]]]
  /\ clients' = [clients EXCEPT ![call[s]] = s]
  /\ Goto(s, IF clients[call[s]] = NoSession THEN "reading" ELSE "evict")
  /\ newest' = [newest EXCEPT ![call[s]] = s]
  /\ UNCHANGED <<call, closed, farewell, filter, writing, disk, stopped, bounds, wanted, loggedIn>>

close(t) == closed' = [closed EXCEPT ![t] = TRUE] /\ UNCHANGED farewell

\* SendAndClose with a message: a full control queue closes at once.
SendAndClose(t) ==
  \/ closed[t] /\ UNCHANGED <<closed, farewell>>
  \/ ~closed[t] /\ farewell' = [farewell EXCEPT ![t] = TRUE] /\ UNCHANGED closed
  \/ ~closed[t] /\ close(t)

\* Mutant: the evicted session is told, but not closed.
MutCloseEvicted(t) == UNCHANGED <<closed, farewell>>

CloseEvicted(t) == IF DuplicateMsg THEN SendAndClose(t) ELSE close(t)

\* registerClient, after the lock: the evicted session is told and closed.
Evict(s) ==
  /\ pc[s] = "evict"
  /\ CloseEvicted(evicted[s])
  /\ evicted' = [evicted EXCEPT ![s] = NoSession]
  /\ Goto(s, "reading")
  /\ UNCHANGED <<call, filter, writing, clients, disk, stopped, bounds, history>>

\* A command that changes the user's settings and saves them.
Command(s, f) ==
  /\ pc[s] = "reading" /\ ~closed[s] /\ commands < MaxCommands
  /\ filter' = [filter EXCEPT ![s] = f]
  /\ wanted' = [wanted EXCEPT ![call[s]] = f]
  /\ commands' = commands + 1
  /\ ret' = [ret EXCEPT ![s] = "reading"]
  /\ Goto(s, "save")
  /\ UNCHANGED <<call, closed, farewell, evicted, buf, clients, disk, stopped, logins, newest, loggedIn>>

\* BYE: the writer closes the connection once the farewell is out.
Bye(s) ==
  /\ pc[s] = "reading" /\ ~closed[s]
  /\ SendAndClose(s)
  /\ Goto(s, "leave")
  /\ UNCHANGED <<call, filter, evicted, writing, clients, disk, stopped, bounds, history>>

\* The connection is closed, by either side: ReadLine fails and the deferred
\* function runs.
ReadFails(s) ==
  /\ pc[s] = "reading"
  /\ close(s)
  /\ Goto(s, "leave")
  /\ UNCHANGED <<call, filter, evicted, writing, clients, disk, stopped, bounds, history>>

\* Mutant: the callsign is removed whoever holds it.
MutRemoved(s) == [clients EXCEPT ![call[s]] = NoSession]

\* A session removes its own registration only.
Removed(s) ==
  IF clients[call[s]] = s THEN [clients EXCEPT ![call[s]] = NoSession] ELSE clients

\* unregisterClient: the locked part, then saveFilter.
unregisterClient(s) ==
  /\ pc[s] = "leave"
  /\ clients' = Removed(s)
  /\ ret' = [ret EXCEPT ![s] = "gone"]
  /\ Goto(s, "save")
  /\ UNCHANGED <<local, buf, disk, stopped, bounds, history>>

\* Mutant: the writer leaves the close to the handler, which waits for input.
MutWriterCloses(s) ==
  /\ farewell[s] /\ ~closed[s] /\ pc[s] # "reading"
  /\ close(s)
  /\ UNCHANGED <<pc, call, filter, evicted, writing, clients, disk, stopped, bounds, history>>

\* writerLoop writes the farewell and closes.
WriterCloses(s) ==
  /\ farewell[s] /\ ~closed[s]
  /\ close(s)
  /\ UNCHANGED <<pc, call, filter, evicted, writing, clients, disk, stopped, bounds, history>>

\* A failed write, a full control queue or an extreme drop rate closes a session.
Fault(s) ==
  /\ pc[s] \notin {"none", "gone"} /\ ~closed[s]
  /\ close(s)
  /\ UNCHANGED <<pc, call, filter, evicted, writing, clients, disk, stopped, bounds, history>>

\* Stop closes the listener and every registered session.
Stop ==
  /\ ~stopped
  /\ stopped' = TRUE
  /\ closed' = [s \in Sessions |-> closed[s] \/ \E c \in Calls : clients[c] = s]
  /\ UNCHANGED <<pc, call, farewell, filter, evicted, writing, clients, disk, bounds, history>>

\* Steps of a session's goroutines that do not wait for the user.
Runs(s) ==
  \/ TouchUserRecordLogin(s) \/ TouchFails(s) \/ saveFilter(s) \/ Truncate(s) \/ Write(s)
  \/ registerClient(s) \/ Evict(s) \/ unregisterClient(s) \/ WriterCloses(s)
  \/ closed[s] /\ (ReadFails(s) \/ LoginFails(s))

Next ==
  \/ Stop
  \/ \E s \in Sessions :
       \/ Accept(s)
       \/ \E c \in Calls : LoginRead(s, c)
       \/ LoginFails(s)
       \/ TouchUserRecordLogin(s)
       \/ TouchFails(s)
       \/ saveFilter(s)
       \/ Truncate(s)
       \/ Write(s)
       \/ registerClient(s)
       \/ Evict(s)
       \/ \E f \in Filters : Command(s, f)
       \/ Bye(s)
       \/ ReadFails(s)
       \/ unregisterClient(s)
       \/ WriterCloses(s)
       \/ Fault(s)

LoginEnds(s) == LoginFails(s) \/ \E c \in Calls : LoginRead(s, c)

\* Every goroutine is scheduled, file operations end, a write to the connection
\* ends because it has a deadline, and so does a login.  Users need not give
\* commands.
Fairness ==
  \A s \in Sessions : WF_vars(Runs(s)) /\ WF_vars(WriterCloses(s)) /\ WF_vars(LoginEnds(s))

Spec == Init /\ [][Next]_vars
FairSpec == Spec /\ Fairness
-----------------------------------------------------------------------------
TypeOK ==
  /\ pc \in [Sessions -> {"none", "login", "touch", "truncate", "write", "save",
                         "register", "evict", "reading", "leave", "gone"}]
  /\ call \in [Sessions -> Calls \cup {NoCall}]
  /\ closed \in [Sessions -> BOOLEAN] /\ farewell \in [Sessions -> BOOLEAN]
  /\ filter \in [Sessions -> Filters]
  /\ evicted \in [Sessions -> Sessions \cup {NoSession}]
  /\ buf \in [Sessions -> Records \cup {NoRecord}]
  /\ ret \in [Sessions -> {"none", "register", "reading", "gone"}]
  /\ clients \in [Calls -> Sessions \cup {NoSession}]
  /\ disk \in [Calls -> Records \cup {NoRecord, Truncated}]
  /\ stopped \in BOOLEAN /\ logins \in Nat /\ commands \in Nat
  /\ newest \in [Calls -> Sessions \cup {NoSession}]
  /\ wanted \in [Calls -> Filters] /\ loggedIn \in [Calls -> Nat]
  /\ \A s \in Sessions : pc[s] \notin {"none", "login", "gone"} => call[s] \in Calls

\* From registerClient to unregisterClient
Serving(s) ==
  \/ pc[s] \in {"evict", "reading", "leave"}
  \/ pc[s] \in {"save", "truncate", "write"} /\ ret[s] = "reading"

\* The registry always holds the newest session of a callsign until that very
\* session unregisters: the late exit of an evicted session never removes its
\* successor, and no session stays listed after its handler is gone
\* (registerClient, unregisterClient).
RegistryIsCurrent ==
  \A c \in Calls :
     clients[c] = IF newest[c] # NoSession /\ Serving(newest[c]) THEN newest[c] ELSE NoSession

\* The state is well formed, and the registry holds the newest session of every callsign
\* (registerClient, unregisterClient).
RegistryIsSound == TypeOK /\ RegistryIsCurrent

\* A session that was displaced from the registry is closed, or has its farewell
\* queued, or its successor is just about to do one of the two: no session is
\* left half-evicted, reading commands outside the registry.
DisplacedIsEvicted ==
  \A s \in Sessions :
     Serving(s) /\ clients[call[s]] # s
     => closed[s] \/ farewell[s] \/ \E t \in Sessions : pc[t] = "evict" /\ evicted[t] = s

\* A displaced session ends, so that at most one session of a callsign stays, and a
\* handler that has returned leaves no open connection behind, although BYE and an
\* eviction leave the closing to the writer (SendAndClose).
SessionsEnd ==
  /\ []<>(\A s \in Sessions : Serving(s) => clients[call[s]] = s)
  /\ []<>(\A s \in Sessions : pc[s] = "gone" => closed[s])

\* "Existing users keep whatever is stored in their data/users/<CALL>.yaml file":
\* as long as nobody gives a command, the stored settings stay.
StoredSettingsKept ==
  \A c \in Calls : commands = 0 /\ disk[c] \in Records => disk[c].filter = wanted[c]
=============================================================================

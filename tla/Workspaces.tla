----------------------------- MODULE Workspaces -----------------------------
(***************************************************************************)
(* workspace.Manager: the workspace a process works on, the database       *)
(* connection it keeps, and the directories the processes share.  Every    *)
(* call is a process's own sequence of steps; storage.Open in the middle   *)
(* of a call is the steps of Migrations.                                   *)
(*                                                                         *)
(* rows[f] is what the workspace_id column holds in the rows that the      *)
(* facade and the import write to file f, and events[f] in the audit rows  *)
(* that Create writes; what else a row says is left out.  An archive is    *)
(* the set of names its rows had, [written |-> FALSE] before the first     *)
(* export.  deleter[f] is the process that removed f, 0 while it stands.   *)
(***************************************************************************)
EXTENDS Migrations

CONSTANTS Default,   \* the workspace a process starts with
          MaxCall,   \* bound on the number of calls
          MaxCrash   \* bound on the number of processes killed

ASSUME WorkspaceAssumption == Default \in Workspace /\ {MaxCall, MaxCrash} \subseteq Nat

VARIABLES active,  \* m.activeName
          handle,  \* the file m.activeDB is connected to, 0 when it is nil
          call,    \* the call under way
          result,  \* how the last call ended
          rows, events, archive, deleter, calls, crashes

manager == <<active, handle, call, result>>
contents == <<rows, events, archive, deleter>>
vars == <<storage, manager, contents, calls, crashes>>

NoCall == [op |-> "none", name |-> Default, left |-> {}]

Init ==
  /\ OpenInit
  /\ active = [p \in Proc |-> Default]
  /\ handle = [p \in Proc |-> 0]
  /\ call = [p \in Proc |-> NoCall]
  /\ result = [p \in Proc |-> "none"]
  /\ rows = [f \in File |-> {}] /\ events = [f \in File |-> {}]
  /\ deleter = [f \in File |-> 0]
  /\ archive = [written |-> FALSE, rows |-> {}]
  /\ calls = 0 /\ crashes = 0

Idle(p) == call[p].op = "none"

\* A call begins.
Start(p, op, w, left) ==
  /\ Idle(p) /\ calls < MaxCall
  /\ calls' = calls + 1
  /\ call' = [call EXCEPT ![p] = [op |-> op, name |-> w, left |-> left]]
  /\ UNCHANGED crashes

Return(p, how) ==
  /\ call' = [call EXCEPT ![p] = NoCall]
  /\ result' = [result EXCEPT ![p] = how]

----------------------------------------------------------------------------
(* The calls that work on the active workspace. *)

\* A facade call such as App.SaveQuery: the repository is fetched, and a row is
\* written that names the active workspace.
StartWrite(p) ==
  /\ Start(p, "write", active[p], {})
  /\ UNCHANGED <<storage, active, handle, result, contents>>

\* Export(name): the rows of the named workspace, read from the active database.
StartExport(p, w) ==
  /\ Start(p, "export", w, {})
  /\ UNCHANGED <<storage, active, handle, result, contents>>

\* Use closes the connection to another workspace and takes the name at once.
SwitchTo(p, w) ==
  /\ handle' = [handle EXCEPT ![p] = IF active[p] # w THEN 0 ELSE @]
  /\ active' = [active EXCEPT ![p] = w]

StartUse(p, w) ==
  /\ Start(p, "use", w, {})
  /\ SwitchTo(p, w)
  /\ UNCHANGED <<storage, result, contents>>

\* ImportArchive reads the archive first, then calls Use.
StartImport(p, w) ==
  /\ archive.written
  /\ Start(p, "import", w, archive.rows)
  /\ SwitchTo(p, w)
  /\ UNCHANGED <<storage, result, contents>>

OnActive == {"write", "export", "use", "import"}

\* ActiveDB opens the database of the active name when there is no connection.
Connect(p) ==
  /\ call[p].op \in OnActive /\ handle[p] = 0
  /\ OpenFile(p, active[p])
  /\ UNCHANGED <<manager, contents, calls, crashes>>

\* Open returned: the connection is kept, or the call returns the error.
Connected(p) ==
  /\ call[p].op \in OnActive /\ open[p].pc = "returned"
  /\ handle' = [handle EXCEPT ![p] = open[p].file]
  /\ open' = [open EXCEPT ![p] = NotOpen]
  /\ IF open[p].file = 0 THEN Return(p, "error") ELSE UNCHANGED <<call, result>>
  /\ UNCHANGED <<path, db, active, contents, calls, crashes>>

\* With a connection, the call does its work on that file.
WriteRow(p) ==
  /\ call[p].op = "write" /\ handle[p] # 0
  /\ rows' = [rows EXCEPT ![handle[p]] = @ \cup {active[p]}]
  /\ Return(p, "ok")
  /\ UNCHANGED <<storage, active, handle, events, archive, deleter, calls, crashes>>

Export(p) ==
  /\ call[p].op = "export" /\ handle[p] # 0
  /\ archive' = [written |-> TRUE, rows |-> rows[handle[p]] \cap {call[p].name}]
  /\ Return(p, "ok")
  /\ UNCHANGED <<storage, active, handle, rows, events, deleter, calls, crashes>>

Use(p) ==
  /\ call[p].op = "use" /\ handle[p] # 0
  /\ Return(p, "ok")
  /\ UNCHANGED <<storage, active, handle, contents, calls, crashes>>

\* A slip: the rows keep the name they were exported with.
ImportArchiveAsIs(p) ==
  /\ call[p].op = "import" /\ handle[p] # 0
  /\ rows' = [rows EXCEPT ![handle[p]] = @ \cup call[p].left]
  /\ Return(p, "ok")
  /\ UNCHANGED <<storage, active, handle, events, archive, deleter, calls, crashes>>

\* Every row of the archive is saved under the target's name.
ImportArchive(p) ==
  /\ call[p].op = "import" /\ handle[p] # 0
  /\ rows' = [rows EXCEPT ![handle[p]] =
               IF call[p].left = {} THEN @ ELSE @ \cup {call[p].name}]
  /\ Return(p, "ok")
  /\ UNCHANGED <<storage, active, handle, events, archive, deleter, calls, crashes>>

----------------------------------------------------------------------------
(* The calls that open a connection of their own. *)

\* Create refuses a name whose database file exists.
StartCreate(p, w) ==
  /\ Start(p, "create", w, {w})
  /\ UNCHANGED <<storage, active, handle, result, contents>>

CreateRefused(p) ==
  /\ call[p].op = "create" /\ call[p].left # {} /\ path[call[p].name] # 0
  /\ Return(p, "error")
  /\ UNCHANGED <<storage, active, handle, contents, calls, crashes>>

\* os.Stat found nothing; another process may make the file before Open does.
CreateAbsent(p) ==
  /\ call[p].op = "create" /\ call[p].left # {} /\ path[call[p].name] = 0
  /\ call' = [call EXCEPT ![p].left = {}]
  /\ UNCHANGED <<storage, active, handle, result, contents, calls, crashes>>

\* GetInfo of a name, List of every directory there is.
StartInfo(p, w) ==
  /\ Start(p, "info", w, {w})
  /\ UNCHANGED <<storage, active, handle, result, contents>>

StartList(p) ==
  /\ Start(p, "info", Default, {w \in Workspace : path[w] # 0})
  /\ UNCHANGED <<storage, active, handle, result, contents>>

\* The next name of the list; the active workspace is read where it is connected.
InfoNext(p) ==
  /\ call[p].op = "info" /\ open[p].pc = "idle"
  /\ IF call[p].left = {} THEN Return(p, "ok") /\ UNCHANGED storage
     ELSE \E w \in call[p].left :
            /\ call' = [call EXCEPT ![p].left = @ \ {w}]
            /\ result' = result
            /\ IF w = active[p] /\ handle[p] # 0 THEN UNCHANGED storage ELSE OpenFile(p, w)
  /\ UNCHANGED <<active, handle, contents, calls, crashes>>

CreateOpen(p) ==
  /\ call[p].op = "create" /\ call[p].left = {} /\ open[p].pc = "idle"
  /\ OpenFile(p, call[p].name)
  /\ UNCHANGED <<manager, contents, calls, crashes>>

\* Open returned to GetInfo, which hides an error and closes what it opened.
InfoOpened(p) ==
  /\ call[p].op = "info" /\ open[p].pc = "returned"
  /\ open' = [open EXCEPT ![p] = NotOpen]
  /\ UNCHANGED <<path, db, manager, contents, calls, crashes>>

\* The identifier of a workspace, by which nothing is looked up.
WorkspaceID(name) == "WS-" \o name

\* Open returned to Create.  CreateWorkspace stores nothing and does not fail;
\* the audit event, AUDIT-001, is a row unless the file has one of that
\* identifier or the insert fails, which is ignored.
CreateOpened(p) ==
  LET f == open[p].file
      event == WorkspaceID(call[p].name) IN
  /\ call[p].op = "create" /\ open[p].pc = "returned"
  /\ open' = [open EXCEPT ![p] = NotOpen]
  /\ \/ f = 0 /\ Return(p, "error") /\ UNCHANGED events
     \/ f # 0 /\ Return(p, "ok") /\ events' \in {events, [events EXCEPT ![f] = @ \cup {event}]}
  /\ UNCHANGED <<path, db, active, handle, rows, archive, deleter, calls, crashes>>

----------------------------------------------------------------------------
\* A slip: deleting the active workspace leaves its connection open.
DeleteKeeping(p, w) ==
  /\ Idle(p) /\ calls < MaxCall /\ calls' = calls + 1
  /\ handle' = handle
  /\ path' = [path EXCEPT ![w] = 0]
  /\ deleter' = [f \in File |-> IF path[w] = f THEN p ELSE deleter[f]]
  /\ active' = [active EXCEPT ![p] = IF path[w] # 0 /\ @ = w THEN Default ELSE @]
  /\ result' = [result EXCEPT ![p] = IF path[w] = 0 THEN "error" ELSE "ok"]
  /\ UNCHANGED <<db, open, call, rows, events, archive, crashes>>

\* Delete closes the connection even when there is nothing to delete, and goes
\* back to the default name without opening it.
Delete(p, w) ==
  /\ Idle(p) /\ calls < MaxCall /\ calls' = calls + 1
  /\ handle' = [handle EXCEPT ![p] = IF active[p] = w THEN 0 ELSE @]
  /\ path' = [path EXCEPT ![w] = 0]
  /\ deleter' = [f \in File |-> IF path[w] = f THEN p ELSE deleter[f]]
  /\ active' = [active EXCEPT ![p] = IF path[w] # 0 /\ @ = w THEN Default ELSE @]
  /\ result' = [result EXCEPT ![p] = IF path[w] = 0 THEN "error" ELSE "ok"]
  /\ UNCHANGED <<db, open, call, rows, events, archive, crashes>>

\* Close at exit, or a kill at any step; the process starts again.
Crash(p) ==
  /\ crashes < MaxCrash /\ crashes' = crashes + 1
  /\ Abandon(p)
  /\ active' = [active EXCEPT ![p] = Default]
  /\ handle' = [handle EXCEPT ![p] = 0]
  /\ Return(p, "none")
  /\ UNCHANGED <<contents, calls>>

Opening(p) == OpenStep(p) /\ UNCHANGED <<manager, contents, calls, crashes>>

Work(p) ==
  \/ Opening(p)
  \/ Connect(p) \/ Connected(p) \/ WriteRow(p) \/ Export(p) \/ Use(p) \/ ImportArchive(p)
  \/ CreateRefused(p) \/ CreateAbsent(p) \/ CreateOpen(p) \/ InfoNext(p)
  \/ InfoOpened(p) \/ CreateOpened(p)

\* The commands workspace list, current, create, use and delete.
WorkspaceCommand(p) ==
  \/ StartList(p)
  \/ \E w \in Workspace : StartInfo(p, w) \/ StartCreate(p, w) \/ StartUse(p, w) \/ Delete(p, w)

Next == \E p \in Proc :
  \/ Work(p) \/ Crash(p) \/ StartWrite(p) \/ WorkspaceCommand(p)
  \/ \E w \in Workspace : StartExport(p, w) \/ StartImport(p, w)

Spec == Init /\ [][Next]_vars

----------------------------------------------------------------------------
(* Properties *)

\* Workspaces are isolated: the rows of a file name the workspace it was made
\* for, and the audit rows of Create that workspace's identifier, and no other,
\* whatever was switched, deleted, re-created by this process or another one, or
\* imported; and a connection always is to a file made for the active name.
RowsInOwnWorkspace ==
  /\ \A f \in File : /\ rows[f] \subseteq {db[f].born}
                     /\ events[f] \subseteq {WorkspaceID(db[f].born)}
  /\ \A p \in Proc : handle[p] # 0 => db[handle[p]].born = active[p]

\* A process whose connection is to a file that is no longer in the active
\* workspace's directory did not remove it itself, and what it is connected to
\* has the whole schema.
HandleIsCurrent ==
  \A p \in Proc : handle[p] # 0 =>
     /\ path[active[p]] = handle[p] \/ deleter[handle[p]] \notin {0, p}
     /\ Recorded(handle[p]) = 1..Latest
=============================================================================

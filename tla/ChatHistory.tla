---------------------------- MODULE ChatHistory ----------------------------
(***************************************************************************)
(* How the chat history reaches SQLite: the autosave of usePiAgent         *)
(* (src/hooks/usePiAgent.ts) and the commands it invokes (src-tauri/src/   *)
(* history_app_state.rs, storage/chat_history*.rs, agent_tasks.rs).        *)
(*                                                                         *)
(* The window keeps the history in React state, saves all of it a moment   *)
(* after each change, and stores new messages at once by commands of their *)
(* own. Commands that are not async run on the main thread, in the order   *)
(* in which they are invoked; an answer comes back some time later. None   *)
(* is a transaction: each statement is written by itself, so a command     *)
(* that SQLite refuses (it is busy) and an application that ends may leave *)
(* a part of it.                                                           *)
(*                                                                         *)
(* A session is its turns, a version of all else that it shows (rev) and   *)
(* updatedAt (stamp). Which sessions of a payload come before one that     *)
(* cannot be merged is left open. Not here: direct writes of titles and of *)
(* finished IM turns, clearing the whole history, forks, and that a        *)
(* session is not deleted while it runs.                                   *)
(***************************************************************************)
EXTENDS Naturals, Sequences, FiniteSets

CONSTANTS
  Sessions, Turns,
  Home,          \* Home[t]: the session of turn t
  Deliveries,    \* the turns that scheduled tasks deliver, each to its own session
  Inbound,       \* the turns that come from an IM channel
  Legacy,        \* sessions that only the v1 backup holds at first
  MaxClock,      \* bound: changes made in the window
  MaxCrashes,    \* bound: times the application ends
  MaxFailures    \* bound: commands that SQLite refuses, starts that load in part

ASSUME HistoryAssumption ==
  /\ IsFiniteSet(Sessions)
  /\ Home \in [Turns -> Sessions]
  /\ Deliveries \subseteq Turns
  /\ Inbound \subseteq Turns \ Deliveries
  /\ Legacy \subseteq Sessions
  /\ \A t \in Inbound \cup Deliveries : Home[t] \notin Legacy
  /\ \A d, e \in Deliveries : Home[d] = Home[e] => d = e
  /\ {MaxClock, MaxCrashes, MaxFailures} \subseteq Nat

VARIABLES
  window,     \* "down", "loading" (mounted, not hydrated) or "ready"
  history,    \* the React state with all updates applied
  latest,     \* latestHistoryRef: the state as last rendered
  timer,      \* saveHistoryTimerRef is set
  saving,     \* saveHistoryInFlightRef is set
  again,      \* saveHistoryAfterFlightRef
  queue,      \* commands invoked, in order
  answers,    \* answers of commands, not yet handled
  db,         \* chat_sessions and chat_turns
  backup,     \* app_state: the v1 snapshot and its fingerprint, if there is one
  recovered,  \* app_state: the backup has been put back once
  row,        \* agent_task_deliveries: no row, a new one, one marked as delivered
  posted,     \* agent-task-delivery events under way
  bots,       \* botSessionMapRef: the sessions of IM users
  sent,       \* history variable: the turns there have been
  gone,       \* history variable: sessions deleted in the database
  stranded,   \* history variable: what the backup held where a command stopped (Strand)
  undone,     \* history variable: a deletion was refused and undone
  missed,     \* history variable: a message found its session not stored yet
  muddled,    \* history variable: a burst, or a delivery torn by the end (Muddle)
  clock,      \* changes so far; stands for the time
  crashes,
  failures

saverVars == <<timer, saving, again>>
windowVars == <<window, history, latest, saverVars, bots>>
ipcVars == <<queue, answers>>
storeVars == <<db, backup, recovered, gone, stranded>>
deliveryVars == <<row, posted>>
mishaps == <<undone, missed, muddled>>
counters == <<clock, crashes, failures>>
vars == <<windowVars, ipcVars, storeVars, deliveryVars, sent, mishaps, counters>>

-----------------------------------------------------------------------------
(* Partial functions on sessions *)

Put(f, s, v) == [x \in DOMAIN f \cup {s} |-> IF x = s THEN v ELSE f[x]]
Drop(f, s) == [x \in DOMAIN f \ {s} |-> f[x]]
Nothing == [x \in {} |-> x]

Item(turns, rev, stamp) == [turns |-> turns, rev |-> rev, stamp |-> stamp]
Record(rows, rev, stamp) == [rows |-> rows, rev |-> rev, stamp |-> stamp]

Listed(seq) == {seq[i] : i \in DOMAIN seq}

IsHistory(h) ==
  /\ DOMAIN h \subseteq Sessions
  /\ \A s \in DOMAIN h :
       h[s] \in [turns : Seq(Turns), rev : Nat, stamp : Nat]

(* The tables: a turn has a place, and no two of a session have the same one *)
(* (UNIQUE(session_id, turn_index)).                                       *)
IsStore(d) ==
  /\ DOMAIN d \subseteq Sessions
  /\ \A s \in DOMAIN d :
       /\ d[s].rev \in Nat /\ d[s].stamp \in Nat
       /\ LET rows == d[s].rows IN
            /\ DOMAIN rows \subseteq Turns
            /\ \A t \in DOMAIN rows : rows[t] \in Nat /\ Home[t] = s
            /\ \A t, u \in DOMAIN rows : rows[t] = rows[u] => t = u

TypeOK ==
  /\ window \in {"down", "loading", "ready"}
  /\ IsHistory(history) /\ IsHistory(latest)
  /\ {timer, saving, again, recovered} \subseteq BOOLEAN
  /\ \A c \in Listed(queue) \cup answers : c.cmd \in {"create", "append", "save", "delete"}
  /\ IsStore(db) /\ IsStore(backup.of)
  /\ row \in [Deliveries -> {"none", "new", "seen"}]
  /\ posted \subseteq Deliveries
  /\ bots \subseteq Sessions /\ gone \subseteq Sessions /\ stranded \subseteq Sessions
  /\ sent \subseteq Turns /\ {undone, missed, muddled} \subseteq BOOLEAN

-----------------------------------------------------------------------------
(* The database *)

(* Mutant: the constraint on places is not looked at. *)
ConflictsNone(rows, turns) == {}

(* A turn of the payload is put at its place in the payload; a row that the   *)
(* payload has not moved away from that place by then makes the merge fail.   *)
Conflicts(rows, turns) ==
  {i \in DOMAIN turns :
     \E u \in DOMAIN rows : rows[u] + 1 = i /\ \A j \in 1..i : turns[j] # u}

Placed(rows, turns, n) ==
  [t \in DOMAIN rows \cup {turns[i] : i \in 1..n} |->
     IF \E i \in 1..n : turns[i] = t
       THEN (CHOOSE i \in 1..n : turns[i] = t) - 1
       ELSE rows[t]]

Rows(d, s) == IF s \in DOMAIN d THEN d[s].rows ELSE Nothing

Blocked(d, h) == {s \in DOMAIN h : Conflicts(Rows(d, s), h[s].turns) # {}}

(* Mutant: replace_history_snapshot_json, which clears the tables first. *)
MergeReplacing(d, h, S) ==
  [s \in S |->
     Record(Placed(Nothing, h[s].turns, Len(h[s].turns)), h[s].rev, h[s].stamp)]

(* merge_history_snapshot_json for the sessions of S, none of which is blocked. *)
Merge(d, h, S) ==
  [s \in DOMAIN d \cup S |->
     IF s \in S
       THEN Record(Placed(Rows(d, s), h[s].turns, Len(h[s].turns)), h[s].rev, h[s].stamp)
       ELSE d[s]]

(* Of session s the first n turns are merged. To append one sets updatedAt to   *)
(* the time; the payload's is put back only when all turns are there.          *)
MergePart(d, h, s, n) ==
  LET appended == \E i \in 1..n : h[s].turns[i] \notin DOMAIN Rows(d, s)
      stamp == IF appended THEN clock ELSE h[s].stamp
  IN  Put(d, s, Record(Placed(Rows(d, s), h[s].turns, n), h[s].rev, stamp))

(* How many turns of s have a place.                                         *)
Free(d, h, s) ==
  {n \in 0..Len(h[s].turns) : \A i \in Conflicts(Rows(d, s), h[s].turns) : n < i}

(* A merge that stops somewhere: some sessions are merged, one in part. *)
MergesInPart(h) ==
  \E done \in SUBSET (DOMAIN h \ Blocked(db, h)) :
    \/ db' = Merge(db, h, done)
    \/ \E s \in DOMAIN h \ done : \E n \in Free(db, h, s) :
         db' = MergePart(Merge(db, h, done), h, s, n)

Largest(S) == CHOOSE n \in S \cup {0} : \A k \in S : k <= n

(* The place of a turn that is appended. *)
NextPlace(rows) == IF DOMAIN rows = {} THEN 0 ELSE Largest({rows[t] : t \in DOMAIN rows}) + 1

(* structured_history_fingerprint; the largest created_at of a turn changes   *)
(* here only with the number of turns.                                       *)
Fingerprint(d) ==
  [sessions |-> Cardinality(DOMAIN d),
   turns |-> Cardinality(UNION {DOMAIN d[s].rows : s \in DOMAIN d}),
   stamp |-> Largest({d[s].stamp : s \in DOMAIN d})]

(* sync_history_v1_backup_from_structured *)
Synced(d, b) == IF Fingerprint(d) \in b.mark THEN b ELSE [of |-> d, mark |-> {Fingerprint(d)}]

(* ... which writes the snapshot first and then its fingerprint.              *)
HalfSynced(d, b) == IF Fingerprint(d) \in b.mark THEN b ELSE [of |-> d, mark |-> b.mark]

(* export_history_snapshot_json and the details of a session: turns by place.  *)
InOrder(rows) ==
  CHOOSE seq \in [1..Cardinality(DOMAIN rows) -> DOMAIN rows] :
    \A i, j \in DOMAIN seq : i < j => rows[seq[i]] < rows[seq[j]]

Exported(d) == [s \in DOMAIN d |-> Item(InOrder(d[s].rows), d[s].rev, d[s].stamp)]

(* maybe_recover_structured_history_from_backup, by which an emptied database  *)
(* gets the sessions of the backup, once.                                    *)
Recovers == DOMAIN db = {} /\ ~recovered /\ DOMAIN backup.of # {}
Loaded == IF Recovers THEN backup.of ELSE db

-----------------------------------------------------------------------------
Init ==
  /\ window = "down" /\ history = Nothing /\ latest = Nothing
  /\ timer = FALSE /\ saving = FALSE /\ again = FALSE
  /\ queue = <<>> /\ answers = {}
  /\ db = Nothing
  /\ \E L \in SUBSET Legacy :
       backup = [of |-> [s \in L |-> Record(Nothing, 0, 0)], mark |-> {}]
  /\ recovered = FALSE
  /\ row = [d \in Deliveries |-> "none"]
  /\ posted = {} /\ bots = {} /\ sent = {} /\ gone = {} /\ stranded = {}
  /\ undone = FALSE /\ missed = FALSE /\ muddled = FALSE
  /\ clock = 0 /\ crashes = 0 /\ failures = 0

Invoke(commands) == queue' = queue \o commands
Creation(t, rev) == [cmd |-> "create", turn |-> t, rev |-> rev]
Appending(t) == [cmd |-> "append", turn |-> t]
Saving(h, auto) == [cmd |-> "save", payload |-> h, auto |-> auto]
Deletion(s, before) == [cmd |-> "delete", session |-> s, before |-> before]
Answer(c, ok) == [cmd |-> c.cmd, of |-> c, ok |-> ok]

Tick == clock' = clock + 1 /\ UNCHANGED <<crashes, failures>>

(* The window is rendered and the writes of the last message are answered.     *)
Calm ==
  /\ history = latest
  /\ \A c \in Listed(queue) \cup answers : c.cmd \notin {"create", "append"}

-----------------------------------------------------------------------------
(* A command that stops between two of its statements *)

(* The backup then has another snapshot than its fingerprint says, or still    *)
(* has what was deleted from a database that is now empty.                    *)
Strand ==
  stranded' = stranded \cup
    (IF backup' # backup \/ (DOMAIN db' = {} /\ gone' # {}) THEN DOMAIN backup'.of ELSE {})

(* chat_append_turn inserts the turn and then sets updatedAt.                 *)
AppendStops(t) ==
  /\ Home[t] \in DOMAIN db
  /\ t \notin DOMAIN db[Home[t]].rows
  /\ LET r == db[Home[t]] IN
       db' = Put(db, Home[t], Record(Put(r.rows, t, NextPlace(r.rows)), r.rev, r.stamp))
  /\ UNCHANGED <<backup, gone>>

(* save_history_state merges and then rewrites the backup.                     *)
SaveStops(h) ==
  /\ UNCHANGED gone
  /\ \/ MergesInPart(h) /\ UNCHANGED backup
     \/ /\ Blocked(db, h) = {}
        /\ db' = Merge(db, h, DOMAIN h)
        /\ backup' = HalfSynced(db', backup)

(* chat_delete_session deletes the turns, then the session, and rewrites the   *)
(* backup.                                                                   *)
DeleteStops(s) ==
  \/ /\ s \in DOMAIN db
     /\ db' = Put(db, s, Record(Nothing, db[s].rev, db[s].stamp))
     /\ UNCHANGED <<backup, gone>>
  \/ /\ db' = Drop(db, s)
     /\ backup' \in {backup, HalfSynced(db', backup)}
     /\ gone' = gone \cup {s}

Stops(c) ==
  /\ \/ UNCHANGED <<db, backup, gone>>
     \/ c.cmd = "append" /\ AppendStops(c.turn)
     \/ c.cmd = "save" /\ SaveStops(c.payload)
     \/ c.cmd = "delete" /\ DeleteStops(c.session)
  /\ UNCHANGED recovered
  /\ Strand

(* load_history_state refills an emptied database and then rewrites the backup. *)
LoadStops ==
  /\ \/ /\ Recovers
        /\ MergesInPart(Exported(backup.of))
        /\ UNCHANGED <<backup, recovered>>
     \/ /\ db' = Loaded
        /\ recovered' = (recovered \/ Recovers)
        /\ backup' \in {backup, HalfSynced(Loaded, backup)}
  /\ UNCHANGED gone
  /\ Strand

-----------------------------------------------------------------------------
(* Start and end of the application *)

Mount ==
  /\ window = "down"
  /\ window' = "loading"
  /\ UNCHANGED <<history, latest, saverVars, bots, ipcVars, storeVars, deliveryVars, sent, mishaps, counters>>

(* load_history_state, whole. *)
Loads ==
  /\ db' = Loaded
  /\ recovered' = (recovered \/ Recovers)
  /\ backup' = Synced(Loaded, backup)
  /\ UNCHANGED <<gone, stranded>>

(* What loading yields. All that is stored; if a source fails, the same from   *)
(* the other one or sessions without their turns (the batch of details        *)
(* failed), or nothing if both fail. What one source lacks is saved at once,   *)
(* beside the autosave: all, if the tables were read before they were refilled. *)
Yields(d) ==
  LET bare == [s \in DOMAIN d |-> Item(<<>>, d[s].rev, d[s].stamp)]
      Yield(h, repair, failed) == [history |-> h, repair |-> repair, failed |-> failed]
  IN  {Yield(Exported(d), repair, 0) : repair \in {FALSE, Recovers}}
      \cup {Yield(Exported(d), TRUE, 1), Yield(bare, FALSE, 1), Yield(Nothing, FALSE, 1)}

(* load_history_state, chat_list_sessions, chat_get_session_details and        *)
(* resolveHydratedHistorySources. Updates made before are overwritten.        *)
Hydrate ==
  /\ window = "loading"
  /\ window' = "ready"
  /\ \E whole \in BOOLEAN :
       /\ IF whole THEN Loads ELSE LoadStops
       /\ \E y \in Yields(db') :
            /\ whole \/ y.failed = 1
            /\ failures' = failures + y.failed
            /\ failures' <= MaxFailures
            /\ history' = y.history
            /\ bots' = {s \in DOMAIN y.history : \E t \in Inbound : t \in Listed(y.history[s].turns)}
            /\ IF y.repair /\ DOMAIN y.history # {}
                 THEN Invoke(<<Saving(y.history, FALSE)>>)
                 ELSE UNCHANGED queue
  /\ UNCHANGED <<latest, saverVars, answers, deliveryVars, sent, mishaps, clock, crashes>>

(* A session that is stored without the turn that was delivered to it. *)
Torn(d) == \E t \in Deliveries \cap sent : Home[t] \in DOMAIN d /\ t \notin DOMAIN d[Home[t]].rows

(* The application ends at any point, also inside a command or while it loads. *)
Crash ==
  /\ window # "down" /\ crashes < MaxCrashes
  /\ crashes' = crashes + 1
  /\ \/ UNCHANGED storeVars
     \/ queue # <<>> /\ Stops(Head(queue))
     \/ window = "loading" /\ LoadStops
  /\ window' = "down" /\ history' = Nothing /\ latest' = Nothing
  /\ timer' = FALSE /\ saving' = FALSE /\ again' = FALSE
  /\ bots' = {} /\ queue' = <<>> /\ answers' = {} /\ posted' = {}
  /\ muddled' = (muddled \/ Torn(db'))
  /\ UNCHANGED <<row, sent, undone, missed, clock, failures>>

-----------------------------------------------------------------------------
(* The window *)

(* React renders; the effect on `history` notes it and asks for a save, unless *)
(* one is due already.                                                       *)
Render ==
  /\ window = "ready"
  /\ latest # history
  /\ latest' = history
  /\ timer' = TRUE
  /\ UNCHANGED <<window, history, saving, again, bots, ipcVars, storeVars, deliveryVars, sent, mishaps, counters>>

(* flushHistoryToStorage: one save at a time, of the state as last rendered.   *)
Flush ==
  IF saving
    THEN again' = TRUE /\ UNCHANGED <<saving, queue>>
    ELSE saving' = TRUE /\ Invoke(<<Saving(latest, TRUE)>>) /\ UNCHANGED again

TimerFires ==
  /\ timer
  /\ timer' = FALSE
  /\ Flush
  /\ UNCHANGED <<window, history, latest, bots, answers, storeVars, deliveryVars, sent, mishaps, counters>>

(* A streamed answer, a status, a setting of the session.                     *)
Edit(s) ==
  /\ window = "ready" /\ clock < MaxClock
  /\ s \in DOMAIN history
  /\ Tick
  /\ history' = Put(history, s, Item(history[s].turns, clock + 1, clock + 1))
  /\ UNCHANGED <<window, latest, saverVars, bots, ipcVars, storeVars, deliveryVars, sent, mishaps>>

(* The title that a model or a heuristic finds: updatedAt stays.               *)
Retitle(s) ==
  /\ window = "ready" /\ clock < MaxClock
  /\ s \in DOMAIN history
  /\ Tick
  /\ history' = Put(history, s, Item(history[s].turns, clock + 1, history[s].stamp))
  /\ UNCHANGED <<window, latest, saverVars, bots, ipcVars, storeVars, deliveryVars, sent, mishaps>>

(* Ids of sessions that have been given away. *)
Known(s) == s \in Legacy \/ \E t \in sent : Home[t] = s

TurnsOf(h, s) == IF s \in DOMAIN h THEN h[s].turns ELSE <<>>

(* The history with turn t at the end of its session.                          *)
WithTurn(h, t) ==
  Put(h, Home[t], Item(Append(TurnsOf(h, Home[t]), t), clock + 1, clock + 1))

(* A message or a deletion while the one before is under way, and an IM message *)
(* that comes while the history loads: what loads overwrites it.              *)
Muddle == muddled' = (muddled \/ ~Calm \/ window = "loading")

(* A prompt or an IM message: shown, and stored at once. A session that is not *)
(* rendered yet is created first; the append then waits for the answer. An IM  *)
(* session that was deleted is stored again, though not shown. IM messages     *)
(* are heard from the mount on.                                              *)
Message(t) ==
  LET s == Home[t] IN
  /\ window = "ready" \/ (window = "loading" /\ t \in Inbound)
  /\ t \notin Deliveries \cup sent
  /\ \/ ~Known(s)
     \/ t \in Inbound /\ s \in bots
     \/ t \notin Inbound /\ s \in DOMAIN latest
  /\ Muddle
  /\ Tick
  /\ sent' = sent \cup {t}
  /\ history' = IF Known(s) /\ s \notin DOMAIN history THEN history ELSE WithTurn(history, t)
  /\ bots' = IF t \in Inbound THEN bots \cup {s} ELSE bots
  /\ Invoke(<<IF s \in DOMAIN latest THEN Appending(t) ELSE Creation(t, clock + 1)>>)
  /\ UNCHANGED <<window, latest, saverVars, answers, storeVars, deliveryVars, undone, missed>>

(* Mutant: the state that the next save takes is left as it was. *)
RemoveShownOnly(s) == history' = Drop(latest, s) /\ UNCHANGED latest

(* A click is rendered before anything else happens. What was not rendered     *)
(* before it is overwritten.                                                 *)
RemoveShown(s) == history' = Drop(latest, s) /\ latest' = Drop(latest, s)

DeleteHistoryItem(s) ==
  /\ window = "ready"
  /\ s \in DOMAIN latest
  /\ Muddle
  /\ RemoveShown(s)
  /\ timer' = TRUE
  /\ Invoke(<<Deletion(s, latest)>>)
  /\ UNCHANGED <<window, saving, again, bots, answers, storeVars, deliveryVars, sent, undone, missed, counters>>

-----------------------------------------------------------------------------
(* Commands on the main thread *)

Answers(ok) == answers' = answers \cup {Answer(Head(queue), ok)}

(* SQLite refuses (it is busy) a statement of the command, or fails to commit it. *)
Refuse ==
  /\ queue # <<>>
  /\ queue' = Tail(queue)
  /\ failures < MaxFailures
  /\ failures' = failures + 1
  /\ Stops(Head(queue))
  /\ Answers(FALSE)
  /\ UNCHANGED <<windowVars, deliveryVars, sent, mishaps, clock, crashes>>

Executes(cmd) ==
  /\ queue # <<>>
  /\ Head(queue).cmd = cmd
  /\ queue' = Tail(queue)
  /\ UNCHANGED <<windowVars, recovered, stranded, deliveryVars, sent, undone, muddled, clock, crashes, failures>>

(* chat_create_session; that the session exists is not taken for a failure.    *)
ExecCreate ==
  LET c == Head(queue) s == Home[c.turn] IN
  /\ Executes("create")
  /\ db' = IF s \in DOMAIN db THEN db ELSE Put(db, s, Record(Nothing, c.rev, clock))
  /\ gone' = gone \ {s}
  /\ Answers(TRUE)
  /\ UNCHANGED <<backup, missed>>

(* chat_append_turn puts the turn after the last one, whatever its place in    *)
(* the window; a turn that is stored stays as it is.                          *)
ExecAppend ==
  LET t == Head(queue).turn s == Home[t] IN
  /\ Executes("append")
  /\ Answers(s \in DOMAIN db)
  /\ missed' = (missed \/ s \notin DOMAIN db)
  /\ db' = IF s \in DOMAIN db /\ t \notin DOMAIN db[s].rows
             THEN Put(db, s, Record(Put(db[s].rows, t, NextPlace(db[s].rows)), db[s].rev, clock))
             ELSE db
  /\ UNCHANGED <<backup, gone>>

(* save_history_state *)
ExecSave ==
  LET h == Head(queue).payload IN
  /\ Executes("save")
  /\ Blocked(db, h) = {}
  /\ db' = Merge(db, h, DOMAIN h)
  /\ backup' = Synced(db', backup)
  /\ Answers(TRUE)
  /\ UNCHANGED <<gone, missed>>

(* A session that cannot be merged stops the save: what was merged before      *)
(* stays and the backup is left alone.                                       *)
ExecSaveBlocked ==
  LET h == Head(queue).payload IN
  /\ Executes("save")
  /\ \E s \in Blocked(db, h), done \in SUBSET (DOMAIN h \ Blocked(db, h)) :
       db' = MergePart(Merge(db, h, done), h, s, Largest(Free(db, h, s)))
  /\ Answers(FALSE)
  /\ UNCHANGED <<backup, gone, missed>>

(* chat_delete_session; nothing is left to do when it succeeds.               *)
ExecDelete ==
  LET s == Head(queue).session IN
  /\ Executes("delete")
  /\ db' = Drop(db, s)
  /\ backup' = Synced(db', backup)
  /\ gone' = gone \cup {s}
  /\ UNCHANGED <<answers, missed>>

-----------------------------------------------------------------------------
(* Answers *)

Handles(a) ==
  /\ a \in answers
  /\ answers' = answers \ {a}
  /\ UNCHANGED <<window, latest, bots, storeVars, deliveryVars, sent, muddled, counters>>

Created(a) ==
  /\ Handles(a)
  /\ a.cmd = "create"
  /\ IF a.ok THEN Invoke(<<Appending(a.of.turn)>>) ELSE UNCHANGED queue
  /\ UNCHANGED <<history, saverVars, undone, missed>>

(* After a prompt a save is asked for; no save is asked for earlier than due.   *)
Appended(a) ==
  /\ Handles(a)
  /\ a.cmd = "append"
  /\ timer' = (timer \/ (a.ok /\ a.of.turn \notin Inbound))
  /\ UNCHANGED <<history, saving, again, queue, undone, missed>>

(* Mutant: a change made during a save waits for the next one. *)
SavedOnce == saving' = FALSE /\ again' = FALSE /\ UNCHANGED queue

(* A failed save is logged; the next one is made at once if it was asked for.   *)
(* Of the save that Hydrate makes only a failure is noted, and logged.        *)
SavedThen ==
  IF again
    THEN saving' = TRUE /\ again' = FALSE /\ Invoke(<<Saving(latest, TRUE)>>)
    ELSE saving' = FALSE /\ UNCHANGED <<again, queue>>

Saved(a) ==
  /\ Handles(a)
  /\ a.cmd = "save"
  /\ IF a.of.auto THEN SavedThen ELSE UNCHANGED <<saving, again, queue>>
  /\ UNCHANGED <<history, timer, undone, missed>>

(* A refused deletion puts the history back as it was when it was asked for:   *)
(* changes made since, and later deletions, are undone with it.              *)
NotDeleted(a) ==
  /\ Handles(a)
  /\ a.cmd = "delete"
  /\ history' = a.of.before
  /\ undone' = TRUE
  /\ UNCHANGED <<saverVars, queue, missed>>

-----------------------------------------------------------------------------
(* Deliveries of scheduled tasks *)

(* record_delivery, and the event, which only a mounted window of the same     *)
(* process hears (the scheduler may run as a daemon of its own).              *)
RecordDelivery(d) ==
  /\ row[d] = "none"
  /\ ~Known(Home[d])
  /\ row' = [row EXCEPT ![d] = "new"]
  /\ sent' = sent \cup {d}
  /\ posted' \in {posted, IF window = "down" THEN posted ELSE posted \cup {d}}
  /\ UNCHANGED <<windowVars, ipcVars, storeVars, mishaps, counters>>

OnDelivery(d) ==
  /\ d \in posted
  /\ posted' = posted \ {d}
  /\ history' = IF d \in Listed(TurnsOf(history, Home[d])) THEN history ELSE WithTurn(history, d)
  /\ Tick
  /\ UNCHANGED <<window, latest, saverVars, bots, ipcVars, storeVars, row, sent, mishaps>>

(* Every 15 s: rows of the sessions in the window are marked and shown.         *)
Undelivered == {d \in Deliveries : row[d] = "new" /\ Home[d] \in DOMAIN latest}

PollTaskDeliveries ==
  /\ Undelivered # {}
  /\ row' = [d \in Deliveries |-> IF d \in Undelivered THEN "seen" ELSE row[d]]
  /\ history' = [s \in DOMAIN history |->
       LET new == {d \in Undelivered : Home[d] = s /\ d \notin Listed(history[s].turns)} IN
       IF new = {} THEN history[s]
       ELSE WithTurn(history, CHOOSE d \in new : TRUE)[s]]
  /\ IF history' = history THEN UNCHANGED counters ELSE Tick
  /\ UNCHANGED <<window, latest, saverVars, bots, ipcVars, storeVars, posted, sent, mishaps>>

-----------------------------------------------------------------------------
Execute ==
  \/ Refuse \/ ExecCreate \/ ExecAppend
  \/ ExecSave \/ ExecSaveBlocked
  \/ ExecDelete

Handle == \E a \in answers : Created(a) \/ Appended(a) \/ Saved(a) \/ NotDeleted(a)

Next ==
  \/ Mount \/ Hydrate \/ Crash
  \/ Render \/ TimerFires
  \/ \E s \in Sessions : Edit(s) \/ Retitle(s) \/ DeleteHistoryItem(s)
  \/ \E t \in Turns : Message(t)
  \/ Execute \/ Handle
  \/ \E d \in Deliveries : RecordDelivery(d) \/ OnDelivery(d)
  \/ PollTaskDeliveries

Spec == Init /\ [][Next]_vars

-----------------------------------------------------------------------------
(* Properties *)

(* What the database has of a session is never replaced by something older:    *)
(* no save, load or restart takes a turn away or brings an earlier version     *)
(* back, also when the window could load only a part or a command stopped      *)
(* midway. Only its deletion, which takes the turns first, loses a session.   *)
(* Once a refused deletion has been undone this is not claimed: older versions *)
(* are then in the window.                                                   *)
Deleting(s) == queue # <<>> /\ Head(queue).cmd = "delete" /\ Head(queue).session = s

StoredNeverOlder ==
  [][\A s \in DOMAIN db :
       \/ undone
       \/ s \in DOMAIN db' /\ db'[s].rev >= db[s].rev /\ DOMAIN db[s].rows \subseteq DOMAIN db'[s].rows
       \/ Deleting(s) /\ (s \in DOMAIN db' => db'[s].rows = Nothing)]_vars

(* A session that was deleted does not come back: not by a save of a state     *)
(* taken before, not by a refilled backup, not after a restart. Only a command *)
(* or a load that stopped between the database and its backup can bring back   *)
(* what the backup held then.                                                *)
DeletedStaysDeleted == undone \/ gone \cap DOMAIN db \subseteq stranded

StoredAs(s, item) ==
  /\ s \in DOMAIN db
  /\ db[s].rev = item.rev
  /\ \A i \in DOMAIN item.turns :
       item.turns[i] \in DOMAIN db[s].rows /\ db[s].rows[item.turns[i]] = i - 1

(* Nothing under way and nothing left to do. *)
Idle ==
  /\ window = "ready" /\ history = latest
  /\ ~timer /\ ~saving /\ queue = <<>> /\ answers = {}

(* If SQLite refuses nothing, a change is never forgotten: once the window is  *)
(* idle all that it shows is stored, the turns in the same order. Not claimed   *)
(* once two turns may want one place: after a message was refused because its   *)
(* session, shown for a delivery, was not stored yet, after a burst or a        *)
(* message during loading, or after the application ended with a delivery's     *)
(* session half stored.                                                      *)
IdleMeansSaved ==
  Idle /\ failures = 0 /\ ~missed /\ ~muddled => \A s \in DOMAIN history : StoredAs(s, history[s])

(* Saves may then fail for good. Still no message is lost: in whatever bursts   *)
(* messages come, each that is shown is stored when the window is idle.        *)
NoMessageLost ==
  Idle /\ failures = 0 /\ ~missed =>
    \A s \in DOMAIN history : \A t \in Listed(history[s].turns) \ Deliveries :
      s \in DOMAIN db /\ t \in DOMAIN db[s].rows
=============================================================================

----------------------------- MODULE RuleEngine -----------------------------
(***************************************************************************)
(* scoring/models/yaml_rules_v2.py: YAMLRulesEngine.  Threads load and     *)
(* reload the rules file and change rules in memory, a watcher polls the   *)
(* file by its hash.  The file is read without the lock; the hash is       *)
(* compared and the rules are published under two holds of it.  A file is  *)
(* known by its content, which is also its hash.  A rule is its id and     *)
(* whether it is enabled; evaluating the rules changes statistics only and *)
(* is left out with them.                                                  *)
(***************************************************************************)
EXTENDS Integers

CONSTANTS
  Threads,  \* threads that call the engine
  Rules,    \* the rule sets, by the content of the file
  MaxEdits, \* bound: edits of the file
  MaxCalls  \* bound: calls that load, reload or change rules

VARIABLES
  content,  \* what is in the file
  rules,    \* rules of _rule_set
  hash,     \* _last_file_hash, "none" before load_rules
  task,     \* per thread, where it is and what it has read
  watching, \* the watcher thread runs
  edits, calls, \* counters
  touched   \* history: rules were changed in memory since they were published

revars == <<content, rules, hash, task, watching, edits, calls, touched>>

Bad == "bad"         \* does not parse
Missing == "missing" \* cannot be read
Watcher == "watcher"
Everyone == Threads \cup {Watcher}
Idle == [at |-> "idle"]
Ids == {r[1] : r \in UNION {Rules[c] : c \in DOMAIN Rules}}

Init ==
  /\ content \in DOMAIN Rules /\ rules = {} /\ hash = "none"
  /\ task = [t \in Everyone |-> Idle] /\ watching = FALSE
  /\ edits = 0 /\ calls = 0 /\ touched = FALSE

To(t, step) == task' = [task EXCEPT ![t] = step]
Called(t) == t \in Threads /\ task[t] = Idle /\ calls < MaxCalls /\ calls' = calls + 1
-----------------------------------------------------------------------------
EditFile(c) ==
  /\ edits < MaxEdits /\ c # content /\ content' = c /\ edits' = edits + 1
  /\ UNCHANGED <<rules, hash, task, watching, calls, touched>>

\* add_rule, remove_rule, enable_rule and disable_rule change the rules in memory only.
Without(id) == {r \in rules : r[1] # id}
ChangeRules(t, id, on) ==
  /\ Called(t) /\ hash # "none"
  /\ rules' \in {Without(id), Without(id) \cup {<<id, on>>}}
  /\ touched' = (touched \/ rules' # rules)
  /\ UNCHANGED <<content, hash, task, watching, edits>>

\* load_rules raises for a file that is missing or bad.
LoadRules(t) ==
  /\ Called(t) /\ content # Missing /\ To(t, [at |-> "publish", raw |-> content])
  /\ UNCHANGED <<content, rules, hash, watching, edits, touched>>
-----------------------------------------------------------------------------
\* reload_rules: read, compare, parse and publish; an error is logged.
StartReload(t) ==
  To(t, IF hash = "none" \/ content = Missing THEN Idle ELSE [at |-> "compare", raw |-> content])
ReloadRules(t) ==
  /\ Called(t) /\ StartReload(t)
  /\ UNCHANGED <<content, rules, hash, watching, edits, touched>>

Compare(t) ==
  /\ task[t].at = "compare"
  /\ To(t, IF hash = task[t].raw THEN Idle ELSE [task[t] EXCEPT !.at = "publish"])
  /\ UNCHANGED <<content, rules, hash, watching, edits, calls, touched>>

\* The hash that is kept is that of what was read, not of what the file holds by now.
HashOf_Now(raw) == content
HashOf(raw) == raw
Publish(t) ==
  LET raw == task[t].raw
  IN  /\ task[t].at = "publish" /\ To(t, Idle)
      /\ IF raw \in DOMAIN Rules
         THEN rules' = Rules[raw] /\ hash' = HashOf(raw) /\ touched' = FALSE
         ELSE UNCHANGED <<rules, hash, touched>>
      /\ UNCHANGED <<content, watching, edits, calls>>
-----------------------------------------------------------------------------
WatchFile ==
  /\ ~watching /\ watching' = TRUE
  /\ UNCHANGED <<content, rules, hash, task, edits, calls, touched>>

\* stop_watching waits for a reload in progress.
StopWatching ==
  /\ watching /\ task[Watcher] = Idle /\ watching' = FALSE
  /\ UNCHANGED <<content, rules, hash, task, edits, calls, touched>>

\* A poll that finds another hash reloads, reading the file once more.
PollFinds ==
  /\ watching /\ task[Watcher] = Idle /\ content \notin {hash, Missing}
  /\ To(Watcher, [at |-> "changed"])
  /\ UNCHANGED <<content, rules, hash, watching, edits, calls, touched>>
PollReloads ==
  /\ task[Watcher].at = "changed" /\ StartReload(Watcher)
  /\ UNCHANGED <<content, rules, hash, watching, edits, calls, touched>>

Proceed(t) == Compare(t) \/ Publish(t)
Poll == PollFinds \/ PollReloads
Next ==
  \/ \E c \in DOMAIN Rules \cup {Bad, Missing} : EditFile(c)
  \/ WatchFile \/ StopWatching \/ Poll
  \/ \E t \in Everyone : Proceed(t)
  \/ \E t \in Threads :
       LoadRules(t) \/ ReloadRules(t) \/ \E id \in Ids, on \in BOOLEAN : ChangeRules(t, id, on)

\* Threads run and the watcher polls; nobody has to edit, call or stop the watcher.
Fairness == WF_revars(Poll) /\ \A t \in Everyone : WF_revars(Proceed(t))

Spec == Init /\ [][Next]_revars /\ Fairness
-----------------------------------------------------------------------------
\* While the file is watched, the rules come to be those of the file, even if another
\* thread publishes an older content over a newer one in between; rules changed in memory
\* since then stay changed as long as the file does not.
InUse ==
  content \in DOMAIN Rules /\ hash = content /\ (touched \/ rules = Rules[content])
RulesSettle ==
  (watching /\ hash # "none") ~> (InUse \/ content \notin DOMAIN Rules \/ ~watching)
=============================================================================

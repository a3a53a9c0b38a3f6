----------------------------- MODULE HostWrites -----------------------------
(***************************************************************************)
(* HostWriteService (hostwrites.py) and gitops.py: reviewed changes of the *)
(* NetInfra file.  One request at a time holds _WRITE_LOCK, in a thread of *)
(* its own: between its steps other programs write the file or use the     *)
(* checkout, an administrator saves the options, and the process may die.  *)
(* A content is the set of changes it is made of; its revision stands for  *)
(* it.                                                                     *)
(***************************************************************************)
EXTENDS Integers, Sequences, SequencesExt

CONSTANTS Paths,         \* files of the checkout that may be the NetInfra file
          MaxTokens,     \* bound: previews
          Outside,       \* changes that other programs make
          Configs,       \* the settings an administrator may save
          MaxPending,    \* HostWriteService.max_pending
          MaxExternal,   \* bound: steps of other programs
          MaxChanges,    \* bound: saved options
          MaxFaults,     \* bound: failing storage and Git operations
          MaxCrashes     \* bound: deaths of the process

\* netinfra_path, git_enabled, backup_retention.  A backup directory, repository
\* or branch that does not fit the path makes a step fail.
ConfigRecord == [path : Paths, git : BOOLEAN, keep : Nat \ {0}]

ASSUME HostWritesAssumption ==
  /\ MaxTokens \in Nat /\ MaxPending \in Nat \ {0} /\ MaxExternal \in Nat
  /\ MaxChanges \in Nat /\ MaxFaults \in Nat /\ MaxCrashes \in Nat
  /\ Outside \cap Nat = {} /\ Configs \subseteq ConfigRecord

VARIABLES
  file,                \* the content of each file
  head, index, other,  \* the checkout: content at HEAD, staged; changes elsewhere
  backups,             \* contents of the backup files of each file, newest first
  config,              \* the settings in force
  previews, retries,   \* the pending tokens, oldest first
  pc, kind, entry,     \* the request that holds the lock, or the last that did
  target,              \* the path it took from the settings
  tokens, external, changes, faults, crashes,   \* what is left of the bounds
  told,     \* history: the answer of the last request
  slipped,  \* history: that request replaced the file, and failed after that
  raced,    \* history: another program wrote since the last revision check, or
            \*          that check read another path than the one that is used
  meddled,  \* history: another program, or the options, since the request began
  calm,     \* history: neither of them, no lost token, no slip, no death, so far
  prior,    \* history: the path of the last save, and the content it replaced
  used      \* history: the tokens that were applied, and answered so

source  == <<file, head, index, other>>
pending == <<previews, retries>>
request == <<pc, kind, entry, target, told, slipped>>
bounds  == <<tokens, external, changes, faults, crashes>>
history == <<raced, meddled, calm, prior, used>>
vars    == <<source, backups, config, pending, request, bounds, history>>

Tokens   == 1 .. MaxTokens
Contents == SUBSET (Tokens \cup Outside)
Entry    == [token : Tokens, settings : Configs, revision : Contents, proposed : Contents]
Torn     == {0}     \* a backup file that was not written to its end
NoEntry  == [token |-> 0, revision |-> {}, proposed |-> {}]

\* n storage or Git operations of this step fail.
Failures(n) ==
  n <= faults /\ faults' = faults - n /\ UNCHANGED <<tokens, external, changes, crashes>>
Faultless == Failures(0)
Fault     == Failures(1)

Init ==
  /\ file = [p \in Paths |-> {}] /\ head = file /\ index = file /\ other = FALSE
  /\ backups = [p \in Paths |-> <<>>] /\ config \in Configs
  /\ previews = <<>> /\ retries = <<>>
  /\ pc = "idle" /\ kind = "none" /\ entry = NoEntry /\ target = config.path
  /\ told = "nothing" /\ slipped = FALSE
  /\ tokens = MaxTokens /\ external = MaxExternal /\ changes = MaxChanges
  /\ faults = MaxFaults /\ crashes = MaxCrashes
  /\ raced = FALSE /\ meddled = FALSE /\ calm = TRUE /\ prior = <<>> /\ used = {}

-----------------------------------------------------------------------------
(* Pending tokens *)

\* Mutant: _prune drops what has expired, and evicts nothing.
AddedUnpruned(q, e) == Append(q, e)

\* A new token; _prune evicts the oldest when there are too many.
Added(q, e) == IF Len(q) < MaxPending THEN Append(q, e) ELSE Append(Tail(q), e)

\* preview: the change is bound to the content it was made for, and to the
\* settings.  An update may propose the content as it is.
Preview(proposed) ==
  /\ pc = "idle" /\ tokens > 0
  /\ tokens' = tokens - 1 /\ UNCHANGED <<external, changes, faults, crashes>>
  /\ LET before == file[config.path] IN
     /\ \/ proposed = before \cup {tokens}
        \/ \E c \in before : proposed = before \ {c}
        \/ proposed = before
     /\ previews' = Added(previews, [token |-> tokens, settings |-> config,
                                     revision |-> before, proposed |-> proposed])
  /\ UNCHANGED <<source, backups, config, retries, request, history>>

\* _prune: tokens of one kind expire in the order they were made.
Expires ==
  /\ pc = "idle"
  /\ \/ previews # <<>> /\ previews' = Tail(previews) /\ UNCHANGED <<retries, calm>>
     \/ retries # <<>> /\ retries' = Tail(retries) /\ UNCHANGED previews /\ calm' = FALSE
  /\ UNCHANGED <<source, backups, config, request, bounds, raced, meddled, prior, used>>

\* _get and _check_revision: the settings and the file are as they were.
Begins(k, e) ==
  /\ pc = "idle" /\ e.settings = config /\ file[config.path] = e.revision
  /\ kind' = k /\ entry' = e /\ target' = config.path
  /\ told' = "nothing" /\ slipped' = FALSE
  /\ raced' = FALSE /\ meddled' = FALSE
  /\ UNCHANGED <<source, backups, config, pending, bounds, calm, prior, used>>

Apply == \E i \in 1 .. Len(previews) : Begins("apply", previews[i]) /\ pc' = "begun"
Retry == \E i \in 1 .. Len(retries) : Begins("retry", retries[i]) /\ pc' = "committing"

-----------------------------------------------------------------------------
(* apply: check, back up, replace *)

Goes(to)        == pc' = to /\ UNCHANGED <<kind, entry, told, slipped>>
Answers(answer) == pc' = "idle" /\ told' = answer /\ UNCHANGED <<kind, entry, slipped>>

\* ensure_clean_checkout.
Clean == file = head /\ index = head /\ ~other

\* The path is read from the settings once more, and kept.
Checks ==
  /\ pc = "begun" /\ target' = config.path
  /\ \/ (config.git => Clean) /\ Faultless /\ Goes("clean")
     \/ config.git /\ ~Clean /\ Faultless /\ Answers("unsaved")
     \/ config.git /\ Fault /\ Answers("unsaved")
  /\ UNCHANGED <<source, backups, config, pending, history>>

\* _backup of the content that apply read.  One that fails is removed, unless
\* that fails too.
BacksUp ==
  /\ pc = "clean"
  /\ \/ /\ Faultless /\ Goes("backed")
        /\ backups' = [backups EXCEPT ![target] = <<entry.revision>> \o @]
     \/ Fault /\ Answers("unsaved") /\ UNCHANGED backups
     \/ /\ Failures(2) /\ Answers("unsaved")
        /\ \E left \in {entry.revision, Torn} :
             backups' = [backups EXCEPT ![target] = <<left>> \o @]
  /\ UNCHANGED <<source, config, pending, target, history>>

\* Mutant: the file is not read again before it is replaced.
RechecksNothing ==
  /\ pc = "backed" /\ Faultless /\ Goes("ready") /\ raced' = FALSE
  /\ UNCHANGED <<source, backups, config, pending, target, meddled, calm, prior, used>>

\* _replace up to its _check_revision, which reads the path of the settings.  The
\* new file that stands beside the old one is removed, unless that fails too.
Rechecks ==
  /\ pc = "backed" /\ raced' = (config.path # target)
  /\ \/ file[config.path] = entry.revision /\ Faultless /\ Goes("ready") /\ UNCHANGED other
     \/ /\ file[config.path] # entry.revision /\ Answers("unsaved")
        /\ (Faultless /\ UNCHANGED other) \/ (Fault /\ other' = TRUE)
     \/ /\ Answers("unsaved")
        /\ (Fault /\ UNCHANGED other) \/ (Failures(2) /\ other' = TRUE)
  /\ UNCHANGED <<file, head, index, backups, config, pending, target, meddled, calm, prior,
                 used>>

\* `del` of the request's token.
Deletes(q, after) == \E i \in 1 .. Len(q) : q[i] = entry /\ after = RemoveAt(q, i)

\* Mutant: the path is read from the settings again.
PutsLive ==
  /\ file' = [file EXCEPT ![config.path] = entry.proposed]
  /\ prior' = IF raced THEN <<>> ELSE <<[path |-> target, content |-> file[target]]>>

\* os.replace.  A content that came between _check_revision and here is lost.
Puts ==
  /\ file' = [file EXCEPT ![target] = entry.proposed]
  /\ prior' = IF raced THEN <<>> ELSE <<[path |-> target, content |-> file[target]]>>

\* Mutant: a failing sync after os.replace makes the save fail.
ReplacesUnsynced ==
  /\ pc = "ready" /\ Puts
  /\ \/ Faultless /\ Goes("replaced")
     \/ Fault /\ Answers("unsaved")
  /\ Deletes(previews, previews')
  /\ used' = used \cup {entry.token}
  /\ UNCHANGED <<head, index, other, backups, config, retries, target, raced, meddled, calm>>

\* The rest of _replace, and `del self._previews[token]`.  What `finally` has to
\* remove is gone after os.replace, but the removal may fail for other reasons:
\* then apply answers that the file was not saved, and keeps the token.
Replaces ==
  /\ pc = "ready"
  /\ \/ /\ Faultless /\ Goes("replaced") /\ Puts
        /\ Deletes(previews, previews') /\ used' = used \cup {entry.token}
        /\ UNCHANGED <<other, calm>>
     \/ /\ Answers("unsaved") /\ UNCHANGED <<file, previews, prior, used, calm>>
        /\ (Fault /\ UNCHANGED other) \/ (Failures(2) /\ other' = TRUE)
     \/ /\ Fault /\ Puts /\ calm' = FALSE
        /\ pc' = "idle" /\ told' = "unsaved" /\ slipped' = TRUE /\ UNCHANGED <<kind, entry>>
        /\ UNCHANGED <<other, previews, used>>
  /\ UNCHANGED <<head, index, backups, config, retries, target, raced, meddled>>

Newest(q)   == IF Len(q) <= config.keep THEN q ELSE SubSeq(q, 1, config.keep)

\* Mutant: the oldest backups are kept.
RetainsOldest ==
  /\ pc = "replaced" /\ Faultless /\ Goes("retained")
  /\ backups' = [backups EXCEPT ![target] =
       IF Len(@) <= config.keep THEN @ ELSE SubSeq(@, Len(@) - config.keep + 1, Len(@))]
  /\ UNCHANGED <<source, config, pending, target, history>>

\* _retain: the newest backups are kept; a failure is ignored.
Retains ==
  /\ pc = "replaced" /\ Goes("retained")
  /\ \/ Faultless /\ backups' = [backups EXCEPT ![target] = Newest(@)]
     \/ Fault /\ UNCHANGED backups
  /\ UNCHANGED <<source, config, pending, target, history>>

-----------------------------------------------------------------------------
(* apply and retry_commit: commit *)

\* The commit failed: the file stays saved, and a retry token is handed out.
Fails ==
  /\ Answers("failed")
  /\ IF kind = "retry" THEN UNCHANGED <<retries, calm>>
     ELSE /\ retries' = Added(retries, [entry EXCEPT !.revision = entry.proposed])
          /\ calm' = (calm /\ Len(retries) < MaxPending)
  /\ UNCHANGED previews

\* Mutant: HEAD takes whatever the file holds by now.
DecidesUnchecked ==
  /\ pc = "retained" /\ raced' = FALSE /\ Faultless
  /\ IF config.git THEN Goes("committing") ELSE Answers("disabled")
  /\ UNCHANGED <<source, backups, config, pending, target, meddled, calm, prior, used>>

\* The file is read again, by the path of the settings.
Decides ==
  /\ pc = "retained" /\ raced' = (config.path # target)
  /\ LET saved == file[config.path] = entry.proposed IN
     \/ ~config.git /\ Faultless /\ Answers("disabled") /\ UNCHANGED <<pending, calm>>
     \/ config.git /\ saved /\ Faultless /\ Goes("committing") /\ UNCHANGED <<pending, calm>>
     \/ config.git /\ ~saved /\ Faultless /\ Fails
     \/ config.git /\ Fault /\ Fails
  /\ UNCHANGED <<source, backups, config, target, meddled, prior, used>>

\* The last step of a commit that did not fail; a retry token is used up.
Commits ==
  /\ Answers("committed")
  /\ IF kind = "retry" THEN Deletes(retries, retries') ELSE UNCHANGED retries
  /\ UNCHANGED <<previews, calm>>

\* _target_status: nothing but the file is changed in the checkout.
Alone(p) ==
  ~other /\ \A q \in Paths \ {p} : file[q] = head[q] /\ index[q] = head[q]

\* Mutant: the commit takes whatever file the settings name.
StagesLive ==
  /\ pc = "committing" /\ config.git /\ Faultless /\ Goes("staged")
  /\ target' = config.path /\ Alone(config.path)
  /\ index' = [index EXCEPT ![config.path] = file[config.path]]
  /\ UNCHANGED <<file, head, other, backups, config, pending, raced, meddled, calm, prior,
                 used>>

\* commit_changes up to `git add`.  The settings are read again, and now kept: a
\* retry commits the file they name, an apply fails when it is not the one it
\* saved.  There is nothing to do, and no failure, when Git was disabled.
Stages ==
  /\ pc = "committing"
  /\ LET path == IF kind = "retry" THEN config.path ELSE target
         fits == config.path = path /\ Alone(path) IN
     /\ target' = path /\ raced' = (raced \/ path # target)
     /\ \/ ~config.git /\ Faultless /\ Commits /\ UNCHANGED index
        \/ /\ config.git /\ fits /\ Faultless /\ Goes("staged")
           /\ index' = [index EXCEPT ![path] = file[path]] /\ UNCHANGED <<pending, calm>>
        \/ config.git /\ ~fits /\ Faultless /\ Fails /\ UNCHANGED index
        \/ config.git /\ Fault /\ Fails /\ UNCHANGED index
  /\ UNCHANGED <<file, head, other, backups, config, meddled, prior, used>>

\* Mutant: a retry that fails uses its token up.
SavesHeadOnce ==
  /\ pc = "staged"
  /\ LET fits == Alone(target) /\ file[target] # head[target] IN
     \/ /\ fits /\ Faultless /\ Commits
        /\ head' = [head EXCEPT ![target] = file[target]]
        /\ index' = [index EXCEPT ![target] = file[target]]
     \/ /\ (~fits /\ Faultless) \/ Fault
        /\ UNCHANGED <<head, index>>
        /\ IF kind = "apply" THEN Fails
           ELSE Answers("failed") /\ Deletes(retries, retries') /\ UNCHANGED <<previews, calm>>
  /\ UNCHANGED <<file, other, backups, config, target, raced, meddled, prior, used>>

\* `git commit --only`: the content the file has by now, if it is a change.
SavesHead ==
  /\ pc = "staged"
  /\ LET fits == Alone(target) /\ file[target] # head[target] IN
     \/ /\ fits /\ Faultless /\ Commits
        /\ head' = [head EXCEPT ![target] = file[target]]
        /\ index' = [index EXCEPT ![target] = file[target]]
     \/ ~fits /\ Faultless /\ Fails /\ UNCHANGED <<head, index>>
     \/ Fault /\ Fails /\ UNCHANGED <<head, index>>
  /\ UNCHANGED <<file, other, backups, config, target, raced, meddled, prior, used>>

-----------------------------------------------------------------------------
(* Other programs, the options, death of the process *)

Outsider ==
  /\ external > 0 /\ external' = external - 1
  /\ UNCHANGED <<tokens, changes, faults, crashes>>
  /\ meddled' = TRUE /\ calm' = FALSE
  /\ UNCHANGED <<backups, config, pending, request, prior, used>>

\* An editor, or `git checkout` of the file: any content, an earlier one too.
Writes(p, c) ==
  /\ Outsider /\ c # file[p]
  /\ file' = [file EXCEPT ![p] = c] /\ raced' = (raced \/ p = target)
  /\ UNCHANGED <<head, index, other>>

\* A user of the checkout commits, or changes something else in it.
UsesCheckout ==
  /\ Outsider /\ UNCHANGED <<file, raced>>
  /\ \/ /\ \E p \in Paths : /\ head' = [head EXCEPT ![p] = file[p]]
                            /\ index' = [index EXCEPT ![p] = file[p]]
        /\ UNCHANGED other
     \/ other' = ~other /\ UNCHANGED <<head, index>>

\* options_save puts its settings in force at once.
SavesOptions(c) ==
  /\ changes > 0 /\ changes' = changes - 1 /\ c # config
  /\ config' = c /\ meddled' = TRUE /\ calm' = FALSE
  /\ UNCHANGED <<source, backups, pending, request, tokens, external, faults, crashes,
                 raced, prior, used>>

\* The tokens are in memory only; the lifespan starts with none.  A temporary
\* file that was to replace the source stays beside it, in the checkout, and a
\* backup that was being written stays as it is.
Crashes ==
  /\ crashes > 0 /\ crashes' = crashes - 1
  /\ UNCHANGED <<tokens, external, changes, faults>>
  /\ previews' = <<>> /\ retries' = <<>>
  /\ pc' = "idle" /\ kind' = "none" /\ entry' = NoEntry /\ UNCHANGED target
  /\ told' = "nothing" /\ slipped' = FALSE
  /\ \/ UNCHANGED backups
     \/ pc = "clean" /\ backups' = [backups EXCEPT ![target] = <<Torn>> \o @]
  /\ other' = (other \/ pc = "ready") \/ (pc = "backed" /\ other' = TRUE)
  /\ calm' = FALSE
  /\ UNCHANGED <<file, head, index, config, raced, meddled, prior, used>>

-----------------------------------------------------------------------------

Next == \/ \E c \in Contents : Preview(c) \/ \E p \in Paths : Writes(p, c)
        \/ Expires \/ Apply \/ Retry
        \/ Checks \/ BacksUp \/ Rechecks \/ Replaces \/ Retains
        \/ Decides \/ Stages \/ SavesHead
        \/ UsesCheckout
        \/ \E c \in Configs : SavesOptions(c)
        \/ Crashes

Spec == Init /\ [][Next]_vars

-----------------------------------------------------------------------------
(* Properties *)

\* The types; an entry is the one of the request that is going on, or was the
\* last.  Neither table of tokens outgrows max_pending (_prune).
TypeOK ==
  /\ file \in [Paths -> Contents] /\ head \in [Paths -> Contents]
  /\ index \in [Paths -> Contents] /\ other \in BOOLEAN
  /\ backups \in [Paths -> Seq(Contents \cup {Torn})] /\ config \in Configs
  /\ previews \in Seq(Entry) /\ retries \in Seq(Entry)
  /\ Len(previews) <= MaxPending /\ Len(retries) <= MaxPending
  /\ pc \in {"idle", "begun", "clean", "backed", "ready", "replaced", "retained",
             "committing", "staged"}
  /\ kind \in {"none", "apply", "retry"} /\ target \in Paths
  /\ entry \in Entry \/ (pc = "idle" /\ kind = "none")
  /\ told \in {"nothing", "unsaved", "disabled", "failed", "committed"}
  /\ slipped \in BOOLEAN /\ raced \in BOOLEAN /\ meddled \in BOOLEAN /\ calm \in BOOLEAN
  /\ prior \in Seq([path : Paths, content : Contents]) /\ used \subseteq Tokens

\* File and commit outcomes are reported separately (DESIGN.md:128-131): if
\* nobody meddled, the answer tells what the file and HEAD hold, whichever
\* storage or Git operations failed, but for the removal of the temporary file
\* after it has replaced the other (NeverUnsaved).  A retry made while Git is
\* disabled answers "committed" too, without a commit (gitops.py:67).
AnswersAreTrue ==
  pc = "idle" /\ ~meddled /\ ~slipped =>
    /\ told = "unsaved" => file[target] = entry.revision
    /\ told \in {"disabled", "failed", "committed"} => file[target] = entry.proposed
    /\ told = "committed" /\ config.git => head[target] = entry.proposed

\* "Once replacement succeeds it must never be reported as unsaved"
\* (hostwrites.py:221).
NeverUnsaved ==
  pc = "idle" /\ ~meddled /\ told = "unsaved" => file[target] = entry.revision

\* What the last save replaced can be restored: it is among the backups of its
\* file, also after failed attempts, other saves, retention, another path in the
\* settings and a death at any point, unless another program wrote it between
\* the last check and the replacement, or that check read another file.
LastIsRecoverable ==
  \A i \in DOMAIN prior :
    \E k \in DOMAIN backups[prior[i].path] : backups[prior[i].path][k] = prior[i].content

\* A token that was applied is never applied again: "a replayed apply"
\* (IMPLEMENTATION_PLAN.md:172) finds no token, even when another program has
\* brought the old content back.  And a token changes its file only, and only
\* from the content it was reviewed against, unless another program wrote that
\* file after it was read for the last time, or another file was read.
Reviewed ==
  [][pc = "ready" /\ pc' # "ready" /\ file' # file =>
       /\ entry.token \notin used
       /\ file' = [file EXCEPT ![target] = entry.proposed]
       /\ raced \/ file[target] = entry.revision]_vars

\* The application commits what was reviewed, and nothing another program wrote
\* before the last revision check, nor another file, unless the settings named
\* another between that check and the commit.
HeadIsReviewed ==
  [][pc = "staged" /\ pc' = "idle" /\ head' # head =>
       raced \/ head' = [head EXCEPT ![target] = entry.proposed]]_vars

\* "Git commit failed" has "a retry path" (DESIGN.md:130): while nobody meddles,
\* no token is lost, no save is denied (NeverUnsaved) and the process lives, a
\* save that HEAD does not hold has a retry token, however many retries failed.
SavedIsCommittable ==
  pc = "idle" /\ calm /\ config.git =>
    \/ file = head
    \/ \E i \in DOMAIN retries :
         retries[i].settings = config /\ retries[i].revision = file[config.path]
=============================================================================

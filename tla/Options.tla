------------------------------ MODULE Options -------------------------------
(***************************************************************************)
(* The settings, which live in the configuration file and in the memory of *)
(* the process, and the audit logger they decide: POST /options (main.py)  *)
(* validates a form, saves the file (config.py), records the change and    *)
(* puts settings and logger in the place of the old ones, while requests   *)
(* and schedules go on recording.  One event loop: between two awaits a    *)
(* handler is one step; a save may wait for its form, a refresh for its    *)
(* scan.                                                                   *)
(***************************************************************************)
EXTENDS Naturals, FiniteSets

CONSTANTS
  Admins,
  Values,         \* what a setting may hold
  MaxLoggers      \* bound: audit loggers built

ASSUME OptionsAssumption == Values # {} /\ MaxLoggers \in Nat \ {0}

VARIABLES
  disk,      \* the configuration file
  edited,    \* somebody edited it since this process read or wrote it
  up,        \* the application is serving
  config,    \* services.config; the other components are given the same object
  audit,     \* the logger each holder writes to
  open,      \* the loggers whose handlers are open
  made,      \* how many loggers there have been
  form,      \* for each administrator, the settings a waiting save copied
  scanning,  \* the loggers captured by refreshes that wait for their scan
  gap        \* acts that owed the log a record, and wrote none

vars == <<disk, edited, up, config, audit, open, made, form, scanning, gap>>

Settings == [restart : Values, live : Values, log : BOOLEAN]
Holders  == {"services", "schedules"}
NoForm   == [copied |-> FALSE]

\* AuditLogger(config): a file or syslog handler, or none that keeps anything.
Logger(n, c) == [id |-> n, keeps |-> c.log]

\* record: a logger that was closed has no handler left.
Reaches(logger) == logger.keeps /\ logger \in open

-----------------------------------------------------------------------------

\* lifespan: settings from the file, one logger for every holder.
Serve(c, n) ==
  /\ up' = TRUE /\ config' = c /\ made' = n
  /\ audit' = [h \in Holders |-> Logger(n, c)]
  /\ open' = {Logger(n, c)}

Init ==
  /\ disk \in Settings /\ edited = FALSE
  /\ up = TRUE /\ config = disk /\ made = 1
  /\ audit = [h \in Holders |-> Logger(1, disk)]
  /\ open = {Logger(1, disk)}
  /\ form = [a \in Admins |-> NoForm]
  /\ scanning = {} /\ gap = {}

\* options_save until its form has arrived: the settings are copied before.
Copies(a) ==
  /\ up /\ form[a] = NoForm
  /\ form' = [form EXCEPT ![a] = [copied |-> TRUE, settings |-> config]]
  /\ UNCHANGED <<disk, edited, up, config, audit, open, made, scanning, gap>>

\* A secret, unknown, repeated or protected field, or a value that is invalid.
Refuses(a) ==
  /\ form[a] # NoForm
  /\ form' = [form EXCEPT ![a] = NoForm]
  /\ UNCHANGED <<disk, edited, up, config, audit, open, made, scanning, gap>>

\* The settings a form asks for; those that need a restart are not its to set.
Asked(a, live, log) == [form[a].settings EXCEPT !.live = live, !.log = log]

\* Mutant: the logger that was in use takes the record, also when it keeps none.
OldFirst(c, replacement) == audit["services"]

\* The record goes to the new logger, or to the old when the new keeps nothing.
Target(c, replacement) == IF c.log THEN replacement ELSE audit["services"]

\* save_config: the whole file, in one rename.
Rewrites(c) == disk' = c /\ edited' = FALSE

\* save_config succeeded; then no await until the form is answered.
Saves(a, c) ==
  LET replacement == Logger(made + 1, c)
      reaches == LET target == Target(c, replacement) IN
                 target.keeps /\ target \in open \cup {replacement} IN
  /\ form[a] # NoForm /\ made < MaxLoggers
  /\ made' = made + 1
  /\ Rewrites(c)
  /\ gap' = IF (config.log \/ c.log) /\ ~reaches THEN gap \cup {"settings"} ELSE gap
  /\ open' = (open \ {audit["services"]}) \cup {replacement}
  /\ config' = c
  /\ audit' = [h \in Holders |-> replacement]
  /\ form' = [form EXCEPT ![a] = NoForm]
  /\ UNCHANGED <<up, scanning>>

\* save_config raises: the replacement is closed again, and nothing is swapped.
SaveFails(a) ==
  /\ form[a] # NoForm /\ made < MaxLoggers
  /\ made' = made + 1
  /\ form' = [form EXCEPT ![a] = NoForm]
  /\ UNCHANGED <<disk, edited, up, config, audit, open, scanning, gap>>

\* Whoever administers the host edits the file; the process does not look.
EditsFile ==
  /\ disk' \in Settings \ {disk} /\ edited' = TRUE
  /\ UNCHANGED <<up, config, audit, open, made, form, scanning, gap>>

\* An act recorded at once, by a request or by the schedules.
Records(h) ==
  /\ up
  /\ gap' = IF config.log /\ ~Reaches(audit[h]) THEN gap \cup {h} ELSE gap
  /\ UNCHANGED <<disk, edited, up, config, audit, open, made, form, scanning>>

\* refresh takes the logger before it waits for its scan,
RefreshBegins ==
  /\ up /\ scanning = {}
  /\ scanning' = {audit["services"]}
  /\ UNCHANGED <<disk, edited, up, config, audit, open, made, form, gap>>

\* and records in it afterwards.
RefreshRecords ==
  \E logger \in scanning :
    /\ scanning' = scanning \ {logger}
    /\ gap' = IF config.log /\ ~Reaches(logger)
              THEN gap \cup {IF logger = audit["services"] THEN "refresh"
                             ELSE "refresh over a save"}
              ELSE gap
    /\ UNCHANGED <<disk, edited, up, config, audit, open, made, form>>

Gone ==
  /\ up /\ up' = FALSE
  /\ form' = [a \in Admins |-> NoForm] /\ scanning' = {}
  /\ UNCHANGED <<config, audit, made, gap>>

\* The lifespan ends: close_audit closes the logger of that moment.
Stops == Gone /\ open' = open \ {audit["services"]} /\ UNCHANGED <<disk, edited>>

\* The process dies, perhaps between os.replace and the record of a save.
Dies ==
  /\ Gone /\ open' = {}
  /\ \/ UNCHANGED <<disk, edited>>
     \/ \E a \in Admins, live \in Values, log \in BOOLEAN :
          form[a] # NoForm /\ Rewrites(Asked(a, live, log))

Starts ==
  /\ ~up /\ made < MaxLoggers
  /\ Serve(disk, made + 1) /\ edited' = FALSE
  /\ UNCHANGED <<disk, form, scanning, gap>>

Next ==
  \/ \E a \in Admins :
       \/ Copies(a) \/ Refuses(a) \/ SaveFails(a)
       \/ \E live \in Values, log \in BOOLEAN : Saves(a, Asked(a, live, log))
  \/ \E h \in Holders : Records(h)
  \/ EditsFile \/ RefreshBegins \/ RefreshRecords \/ Stops \/ Dies \/ Starts

Spec == Init /\ [][Next]_vars

-----------------------------------------------------------------------------

\* A save of the options is on disk and recorded or leaves no trace, whoever else
\* is saving, recording or scanning: the settings the routes read are the ones a
\* restart would read (unless the file was edited by hand), no logger stays open
\* but the one in use, and while there is a log before or after it, the save and
\* every other act is recorded (options_save, in the order it closes, records and
\* swaps).  That every component gets the same settings is not part of it: they
\* are one variable here.  The exception is what main.py:401 does: a refresh that waited
\* while options were saved writes to the logger it took before, now closed.
SavesAreWhole ==
  /\ up /\ ~edited => disk = config
  /\ open = IF up THEN {audit["services"]} ELSE {}
  /\ gap \subseteq {"refresh over a save"}

=============================================================================

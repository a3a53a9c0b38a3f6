--------------------------- MODULE Options_proofs ---------------------------
(***************************************************************************)
(* SavesAreWhole holds for any number of administrators, values and        *)
(* loggers.  It is not inductive: that an act reaches the log rests on     *)
(* every holder having the one open logger, on that logger keeping what    *)
(* the settings in force say, and on saves and refreshes waiting only      *)
(* while the application serves.                                           *)
(***************************************************************************)
EXTENDS Options, TLAPS

Current == audit["services"]

HoldersInv == \A h \in Holders : audit[h] = Current

OpenInv ==
  /\ up \in BOOLEAN /\ edited \in BOOLEAN
  /\ open = IF up THEN {Current} ELSE {}
  /\ up => Current.keeps = config.log

WaitingInv == ~up => scanning = {} /\ \A a \in Admins : form[a] = NoForm

DiskInv == up /\ ~edited => disk = config

GapInv == gap \subseteq {"refresh over a save"}

IInv == HoldersInv /\ OpenInv /\ WaitingInv /\ DiskInv /\ GapInv

LEMMA InitInv == Init => IInv
<1> SUFFICES ASSUME Init PROVE IInv
  OBVIOUS
<1>1. up /\ up \in BOOLEAN /\ edited \in BOOLEAN
  BY DEF Init
<1>2. \A h \in Holders : audit[h] = Logger(1, config)
  BY DEF Init
<1>3. Current = Logger(1, config)
  BY <1>2 DEF Current, Holders
<1>4. HoldersInv
  BY <1>2, <1>3 DEF HoldersInv
<1>5. OpenInv
  <2>1. Current.keeps = config.log
    BY <1>3 DEF Logger
  <2>2. QED  BY <1>1, <1>3, <2>1 DEF Init, OpenInv
<1>6. WaitingInv /\ DiskInv /\ GapInv
  BY <1>1 DEF Init, WaitingInv, DiskInv, GapInv
<1>7. QED  BY <1>4, <1>5, <1>6 DEF IInv

\* A save puts one logger in the place of all, and its record finds one that
\* keeps it if either settings keep a log.
LEMMA SavesInv ==
  ASSUME IInv, NEW a \in Admins, NEW c, Saves(a, c)
  PROVE  IInv'
<1>1. up /\ up' = up
  BY DEF Saves, IInv, WaitingInv, OpenInv
<1>2. HoldersInv' /\ OpenInv'
  <2> DEFINE replacement == Logger(made + 1, c)
  <2>1. \A h \in Holders : audit'[h] = replacement
    BY DEF Saves
  <2>2. Current' = replacement
    BY <2>1 DEF Current, Holders
  <2>3. open' = {replacement}
    BY <1>1 DEF Saves, IInv, OpenInv, Current
  <2>4. Current'.keeps = config'.log
    BY <2>2 DEF Saves, Logger
  <2>5. edited' \in BOOLEAN
    BY DEF Saves, Rewrites
  <2>6. QED  BY <1>1, <2>1, <2>2, <2>3, <2>4, <2>5 DEF HoldersInv, OpenInv
<1>3. WaitingInv' /\ DiskInv'
  BY <1>1 DEF Saves, Rewrites, WaitingInv, DiskInv
<1>4. GapInv'
  <2> DEFINE target == Target(c, Logger(made + 1, c))
  <2>1. CASE ~(config.log \/ c.log)
    BY <2>1 DEF Saves, IInv, GapInv
  <2>2. CASE c.log
    <3>1. target = Logger(made + 1, c) /\ target.keeps
      BY <2>2 DEF Target, Logger
    <3>2. QED  BY <2>2, <3>1 DEF Saves, IInv, GapInv
  <2>3. CASE config.log /\ ~c.log
    <3>1. target = Current /\ target.keeps /\ target \in open
      BY <1>1, <2>3 DEF Target, IInv, OpenInv, Current
    <3>2. QED  BY <2>3, <3>1 DEF Saves, IInv, GapInv
  <2>4. QED  BY <2>1, <2>2, <2>3
<1>5. QED  BY <1>2, <1>3, <1>4 DEF IInv

LEMMA StepInv == IInv /\ [Next]_vars => IInv'
<1> SUFFICES ASSUME IInv, [Next]_vars PROVE IInv'
  OBVIOUS
<1> USE DEF IInv, Current, HoldersInv, OpenInv, WaitingInv, DiskInv, GapInv
<1>1. ASSUME NEW a \in Admins, Copies(a) \/ Refuses(a) \/ SaveFails(a) PROVE IInv'
  BY <1>1 DEF Copies, Refuses, SaveFails, NoForm
<1>2. ASSUME NEW a \in Admins, NEW live \in Values, NEW log \in BOOLEAN,
             Saves(a, Asked(a, live, log))
      PROVE  IInv'
  BY <1>2, SavesInv
<1>3. ASSUME NEW h \in Holders, Records(h) PROVE IInv'
  BY <1>3 DEF Records, Reaches
<1>4. CASE EditsFile
  BY <1>4 DEF EditsFile
<1>5. CASE RefreshBegins
  BY <1>5 DEF RefreshBegins
<1>6. CASE RefreshRecords
  <2>1. PICK logger \in scanning :
          /\ scanning' = scanning \ {logger}
          /\ gap' = IF config.log /\ ~Reaches(logger)
                    THEN gap \cup {IF logger = Current THEN "refresh"
                                   ELSE "refresh over a save"}
                    ELSE gap
          /\ UNCHANGED <<disk, edited, up, config, audit, open, made, form>>
    BY <1>6 DEF RefreshRecords
  <2>2. up
    BY <2>1
  <2>3. logger = Current /\ config.log => Reaches(logger)
    BY <2>2 DEF Reaches
  <2>4. GapInv'
    BY <2>1, <2>3
  <2>5. QED  BY <2>1, <2>2, <2>4
<1>7. CASE Stops
  BY <1>7 DEF Stops, Gone
<1>8. CASE Dies
  BY <1>8 DEF Dies, Gone, Rewrites
<1>9. CASE Starts
  <2>1. up' = TRUE /\ edited' = FALSE /\ disk' = disk /\ config' = disk /\ gap' = gap
    BY <1>9 DEF Starts, Serve
  <2>2. \A h \in Holders : audit'[h] = Logger(made + 1, disk)
    BY <1>9 DEF Starts, Serve
  <2>3. audit'["services"] = Logger(made + 1, disk)
    BY <2>2 DEF Holders
  <2>4. open' = {Logger(made + 1, disk)}
    BY <1>9 DEF Starts, Serve
  <2>5. audit'["services"].keeps = config'.log
    BY ONLY <2>1, <2>3 DEF Logger
  <2>6. HoldersInv'
    BY <2>2, <2>3
  <2>7. OpenInv'
    BY ONLY <2>1, <2>3, <2>4, <2>5 DEF OpenInv, Current
  <2>8. WaitingInv' /\ DiskInv' /\ GapInv'
    BY <2>1
  <2>9. QED  BY <2>6, <2>7, <2>8
<1>10. CASE UNCHANGED vars
  BY <1>10 DEF vars
<1>11. QED
  BY <1>1, <1>2, <1>3, <1>4, <1>5, <1>6, <1>7, <1>8, <1>9, <1>10 DEF Next

\* A save of the options is all or nothing, and every other act is recorded,
\* whatever number of administrators save at once (options_save, save_config,
\* AuditLogger, close_audit).
THEOREM Saves_Whole == Spec => []SavesAreWhole
<1>1. IInv => SavesAreWhole
  BY DEF IInv, OpenInv, DiskInv, GapInv, SavesAreWhole, Current
<1>2. QED  BY <1>1, InitInv, StepInv, PTL DEF Spec

=============================================================================

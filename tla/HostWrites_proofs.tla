------------------------- MODULE HostWrites_proofs --------------------------
(***************************************************************************)
(* Proofs about HostWrites, for any number of tokens, contents, settings,  *)
(* failures and deaths.  The invariant says what a request may rely on at  *)
(* each of its steps: which tokens are still unused, what the file holds   *)
(* while nobody writes it, that a backup of it was made, and, as long as   *)
(* all is calm, how HEAD will come to hold it.                             *)
(***************************************************************************)
EXTENDS HostWrites, SequenceTheorems, TLAPS

Unsaved == {"begun", "clean", "backed", "ready"}
Saved   == {"replaced", "retained", "committing", "staged"}

TypeInv == TypeOK /\ tokens \in 0 .. MaxTokens

\* Tokens are drawn downwards, once each; the one being applied is still there.
TokenInv ==
  /\ \A i \in 1 .. Len(previews) : previews[i].token > tokens /\ previews[i].token \notin used
  /\ \A i, j \in 1 .. Len(previews) : previews[i].token = previews[j].token => i = j
  /\ \A t \in used : t > tokens
  /\ pc \in Unsaved => \E i \in 1 .. Len(previews) : previews[i] = entry

\* What a retry token stands for is what was saved.
RetryInv ==
  /\ \A i \in 1 .. Len(retries) : retries[i].revision = retries[i].proposed
  /\ pc # "idle" /\ kind = "retry" =>
       /\ pc \in {"committing", "staged"} /\ entry.revision = entry.proposed
       /\ \E i \in 1 .. Len(retries) : retries[i] = entry

\* The file while nobody meddles, and since the last check of its revision.
FileInv ==
  /\ pc # "idle" => kind # "none" /\ told = "nothing"
  /\ ~meddled /\ pc # "idle" => target = config.path
  /\ ~meddled /\ pc \in Unsaved => file[target] = entry.revision
  /\ ~meddled /\ pc \in Saved => file[target] = entry.proposed
  /\ ~raced /\ pc = "ready" => file[target] = entry.revision
  /\ ~raced /\ pc \in {"committing", "staged"} => file[target] = entry.proposed
  /\ AnswersAreTrue

BackupInv ==
  /\ pc \in {"backed", "ready", "replaced"} =>
       backups[target] # <<>> /\ backups[target][1] = entry.revision
  /\ pc = "replaced" =>
       \A i \in 1 .. Len(prior) : prior[i] = [path |-> target, content |-> entry.revision]
  /\ LastIsRecoverable

\* HEAD differs from the files at most in the one that the settings name.
CalmInv ==
  calm =>
    /\ ~meddled
    /\ pc # "idle" => entry.settings = config
    /\ config.git => \A q \in Paths \ {config.path} : file[q] = head[q]
    /\ config.git /\ pc \in {"clean", "backed", "ready"} => file = head
    /\ config.git /\ (pc \in {"idle", "begun"}) =>
         \/ file = head
         \/ \E i \in 1 .. Len(retries) :
              retries[i].settings = config /\ retries[i].revision = file[config.path]

IInv == TypeInv /\ TokenInv /\ RetryInv /\ FileInv /\ BackupInv /\ CalmInv

-----------------------------------------------------------------------------
(* The tables of tokens *)

\* A new token comes last, before it what was there, but for the oldest.
LEMMA AddedLast ==
  ASSUME NEW q \in Seq(Entry), Len(q) <= MaxPending, NEW e \in Entry
  PROVE  /\ Added(q, e) \in Seq(Entry) /\ Len(Added(q, e)) <= MaxPending
         /\ Len(Added(q, e)) > 0 /\ Added(q, e)[Len(Added(q, e))] = e
         /\ \E d \in {0, 1} :
              /\ Len(Added(q, e)) = Len(q) + 1 - d
              /\ \A i \in 1 .. Len(Added(q, e)) - 1 :
                   i + d \in 1 .. Len(q) /\ Added(q, e)[i] = q[i + d]
         /\ Len(q) < MaxPending => \A i \in 1 .. Len(q) : Added(q, e)[i] = q[i]
<1>0. MaxPending \in Nat \ {0}
  BY HostWritesAssumption
<1>1. CASE Len(q) < MaxPending
  <2>1. Added(q, e) = Append(q, e)
    BY <1>1 DEF Added
  <2>2. /\ Append(q, e) \in Seq(Entry) /\ Len(Append(q, e)) = Len(q) + 1
        /\ Append(q, e)[Len(q) + 1] = e
        /\ \A i \in 1 .. Len(q) : Append(q, e)[i] = q[i]
    BY AppendProperties
  <2>3. Len(Added(q, e)) = Len(q) + 1 - 0
    BY <2>1, <2>2
  <2>4. QED  BY <1>0, <1>1, <2>1, <2>2, <2>3
<1>2. CASE ~(Len(q) < MaxPending)
  <2>1. Added(q, e) = Append(Tail(q), e) /\ q # <<>> /\ Len(q) > 0
    BY <1>0, <1>2 DEF Added
  <2>2. /\ Tail(q) \in Seq(Entry) /\ Len(Tail(q)) = Len(q) - 1
        /\ \A i \in 1 .. Len(Tail(q)) : Tail(q)[i] = q[i + 1]
    BY <2>1, HeadTailProperties
  <2>3. /\ Append(Tail(q), e) \in Seq(Entry)
        /\ Len(Append(Tail(q), e)) = Len(Tail(q)) + 1
        /\ Append(Tail(q), e)[Len(Tail(q)) + 1] = e
        /\ \A i \in 1 .. Len(Tail(q)) : Append(Tail(q), e)[i] = Tail(q)[i]
    BY <2>2, AppendProperties
  <2>4. Len(Added(q, e)) = Len(q) + 1 - 1
    BY <2>1, <2>2, <2>3
  <2>5. \A i \in 1 .. Len(Added(q, e)) - 1 :
          i + 1 \in 1 .. Len(q) /\ Added(q, e)[i] = q[i + 1]
    BY <2>1, <2>2, <2>3, <2>4
  <2>6. /\ Added(q, e) \in Seq(Entry) /\ Len(Added(q, e)) = Len(q)
        /\ Added(q, e)[Len(Added(q, e))] = e
    BY <2>1, <2>2, <2>3
  <2>7. QED  BY <1>2, <2>1, <2>4, <2>5, <2>6
<1>3. QED  BY <1>1, <1>2

\* One token goes, the others keep their order.
LEMMA Removed ==
  ASSUME NEW S, NEW q \in Seq(S), NEW i \in 1 .. Len(q)
  PROVE  /\ RemoveAt(q, i) \in Seq(S) /\ Len(RemoveAt(q, i)) = Len(q) - 1
         /\ \A k \in 1 .. Len(q) - 1 : RemoveAt(q, i)[k] = q[IF k < i THEN k ELSE k + 1]
<1> DEFINE left  == SubSeq(q, 1, i - 1)
           right == SubSeq(q, i + 1, Len(q))
<1>1. /\ left \in Seq(S) /\ Len(left) = i - 1
      /\ \A k \in 1 .. i - 1 : left[k] = q[k]
  BY SubSeqProperties
<1>2. /\ right \in Seq(S) /\ Len(right) = Len(q) - i
      /\ \A k \in 1 .. Len(q) - i : right[k] = q[k + i]
  BY SubSeqProperties
<1>3. /\ left \o right \in Seq(S) /\ Len(left \o right) = Len(q) - 1
      /\ \A k \in 1 .. Len(q) - 1 :
           (left \o right)[k] = IF k <= i - 1 THEN left[k] ELSE right[k - (i - 1)]
  <2> HIDE DEF left, right
  <2>1. /\ left \o right \in Seq(S) /\ Len(left \o right) = Len(left) + Len(right)
        /\ \A k \in 1 .. Len(left) + Len(right) :
             (left \o right)[k] = IF k <= Len(left) THEN left[k] ELSE right[k - Len(left)]
    BY <1>1, <1>2, ConcatProperties
  <2>2. Len(left) + Len(right) = Len(q) - 1
    BY <1>1, <1>2
  <2>3. QED  BY <1>1, <2>1, <2>2
<1>4. RemoveAt(q, i) = left \o right
  BY DEF RemoveAt
<1>5. ASSUME NEW k \in 1 .. Len(q) - 1
      PROVE  (left \o right)[k] = q[IF k < i THEN k ELSE k + 1]
  <2> HIDE DEF left, right
  <2>1. CASE k < i
    BY <1>1, <1>3, <2>1
  <2>2. CASE ~(k < i)
    <3>1. k - (i - 1) \in 1 .. Len(q) - i /\ (k - (i - 1)) + i = k + 1
      BY <2>2
    <3>2. QED  BY <1>2, <1>3, <2>2, <3>1
  <2>3. QED  BY <2>1, <2>2
<1>6. QED  BY <1>3, <1>4, <1>5

\* A backup comes first, and moves the others by one.
LEMMA Prepended ==
  ASSUME NEW S, NEW q \in Seq(S), NEW x \in S
  PROVE  /\ <<x>> \o q \in Seq(S) /\ Len(<<x>> \o q) = Len(q) + 1
         /\ (<<x>> \o q)[1] = x
         /\ \A k \in 1 .. Len(q) : (<<x>> \o q)[k + 1] = q[k]
<1>1. <<x>> \in Seq(S) /\ Len(<<x>>) = 1 /\ <<x>>[1] = x
  OBVIOUS
<1>2. /\ <<x>> \o q \in Seq(S) /\ Len(<<x>> \o q) = Len(<<x>>) + Len(q)
      /\ \A i \in 1 .. Len(<<x>>) + Len(q) :
           (<<x>> \o q)[i] = IF i <= Len(<<x>>) THEN <<x>>[i] ELSE q[i - Len(<<x>>)]
  BY <1>1, ConcatProperties
<1>3. (<<x>> \o q)[1] = x
  BY <1>1, <1>2
<1>4. ASSUME NEW k \in 1 .. Len(q) PROVE (<<x>> \o q)[k + 1] = q[k]
  BY <1>1, <1>2
<1>5. QED  BY <1>1, <1>2, <1>3, <1>4

\* What is among the backups of each file stays among them.
KeepsBackups ==
  \A q \in Paths : \A k \in 1 .. Len(backups[q]) :
    \E m \in 1 .. Len(backups'[q]) : backups'[q][m] = backups[q][k]

\* The settings name a file.
LEMMA PathOfConfig == IInv => config.path \in Paths
  BY HostWritesAssumption DEF IInv, TypeInv, TypeOK, ConfigRecord

\* A new backup of one file comes first, and nothing else is lost.
LEMMA PutFirst ==
  ASSUME TypeInv, NEW x \in Contents \cup {Torn},
         backups' = [backups EXCEPT ![target] = <<x>> \o @]
  PROVE  /\ backups' \in [Paths -> Seq(Contents \cup {Torn})]
         /\ backups'[target] # <<>> /\ backups'[target][1] = x
         /\ KeepsBackups
<1>1. backups \in [Paths -> Seq(Contents \cup {Torn})] /\ target \in Paths
  BY DEF TypeInv, TypeOK
<1> DEFINE q == backups[target]
<1>2. q \in Seq(Contents \cup {Torn})
  BY <1>1
<1>3. /\ backups'[target] = <<x>> \o q
      /\ \A p \in Paths : p # target => backups'[p] = backups[p]
  BY <1>1
<1> HIDE DEF q
<1>4. /\ <<x>> \o q \in Seq(Contents \cup {Torn}) /\ Len(<<x>> \o q) = Len(q) + 1
      /\ (<<x>> \o q)[1] = x
      /\ \A k \in 1 .. Len(q) : (<<x>> \o q)[k + 1] = q[k]
  BY <1>2, Prepended
<1>5. backups' \in [Paths -> Seq(Contents \cup {Torn})]
  BY <1>1, <1>3, <1>4 DEF q
<1>6. backups'[target] # <<>>
  <2>1. Len(<<x>> \o q) > 0
    BY <1>2, <1>4
  <2>2. QED  BY <1>3, <1>4, <2>1
<1>7. KeepsBackups
  <2>1. ASSUME NEW p \in Paths, NEW k \in 1 .. Len(backups[p])
        PROVE  \E m \in 1 .. Len(backups'[p]) : backups'[p][m] = backups[p][k]
    <3>1. CASE p = target
      <4>1. backups[p] = q /\ backups'[p] = <<x>> \o q
        BY <1>3, <3>1 DEF q
      <4>2. k + 1 \in 1 .. Len(<<x>> \o q) /\ (<<x>> \o q)[k + 1] = q[k]
        BY <1>2, <1>4, <4>1
      <4>3. QED  BY <4>1, <4>2
    <3>2. CASE p # target
      BY <1>3, <3>2
    <3>3. QED  BY <3>1, <3>2
  <2>2. QED  BY <2>1 DEF KeepsBackups
<1>8. QED  BY <1>3, <1>4, <1>5, <1>6, <1>7

\* Then what the last save replaced can still be restored.
LEMMA StillRecoverable ==
  ASSUME TypeInv, LastIsRecoverable, KeepsBackups, prior' = prior,
         backups' \in [Paths -> Seq(Contents \cup {Torn})]
  PROVE  LastIsRecoverable'
<1>1. /\ prior \in Seq([path : Paths, content : Contents])
      /\ backups \in [Paths -> Seq(Contents \cup {Torn})]
  BY DEF TypeInv, TypeOK
<1>2. ASSUME NEW i \in DOMAIN prior
      PROVE  \E k \in DOMAIN backups'[prior[i].path] :
               backups'[prior[i].path][k] = prior[i].content
  <2> DEFINE p == prior[i].path
  <2>1. p \in Paths
    <3>1. prior[i] \in [path : Paths, content : Contents]
      <4> DEFINE R == [path : Paths, content : Contents]
      <4>1. prior \in Seq(R)
        BY <1>1
      <4> HIDE DEF R
      <4>2. prior[i] \in R
        BY <1>2, <4>1
      <4>3. QED  BY <4>2 DEF R
    <3>2. QED  BY <3>1
  <2>2. PICK k \in DOMAIN backups[p] : backups[p][k] = prior[i].content
    BY DEF LastIsRecoverable
  <2> HIDE DEF p
  <2>3. k \in 1 .. Len(backups[p]) /\ DOMAIN backups'[p] = 1 .. Len(backups'[p])
    BY <1>1, <2>1, <2>2
  <2>4. PICK m \in 1 .. Len(backups'[p]) : backups'[p][m] = backups[p][k]
    BY <2>1, <2>3 DEF KeepsBackups
  <2>5. QED  BY <2>2, <2>3, <2>4 DEF p
<1>3. QED  BY <1>2 DEF LastIsRecoverable

\* A commit that fails leaves a retry token for what was saved.
LEMMA FailsKeepsRetry ==
  ASSUME IInv, pc \in Saved, Fails
  PROVE  /\ retries' \in Seq(Entry) /\ Len(retries') <= MaxPending /\ RetryInv'
         /\ calm' \in BOOLEAN /\ (calm' => calm)
         /\ calm' => \E i \in 1 .. Len(retries') :
                       retries'[i].settings = config /\ retries'[i].revision = entry.proposed
<1>1. /\ retries \in Seq(Entry) /\ Len(retries) <= MaxPending /\ entry \in Entry
      /\ calm \in BOOLEAN /\ (calm => entry.settings = config)
  BY DEF IInv, TypeInv, TypeOK, CalmInv, Saved
<1>2. pc' = "idle"
  BY DEF Fails, Answers
<1>3. CASE kind = "retry"
  <2>1. retries' = retries /\ calm' = calm
    BY <1>3 DEF Fails
  <2>2. \E i \in 1 .. Len(retries) : retries[i] = entry /\ entry.revision = entry.proposed
    BY <1>3 DEF IInv, RetryInv, Saved
  <2>3. RetryInv'
    BY <1>2, <2>1 DEF IInv, RetryInv
  <2>4. QED  BY <1>1, <2>1, <2>2, <2>3
<1>4. CASE kind # "retry"
  <2> DEFINE e == [entry EXCEPT !.revision = entry.proposed]
  <2>1. retries' = Added(retries, e) /\ calm' = (calm /\ Len(retries) < MaxPending)
    BY <1>4 DEF Fails
  <2>2. e \in Entry /\ e.revision = entry.proposed /\ e.proposed = entry.proposed
        /\ e.settings = entry.settings
    BY <1>1 DEF Entry
  <2> HIDE DEF e
  <2>3. /\ retries' \in Seq(Entry) /\ Len(retries') <= MaxPending
        /\ Len(retries') > 0 /\ retries'[Len(retries')] = e
    BY <1>1, <2>1, <2>2, AddedLast
  <2>4. PICK d \in {0, 1} :
          /\ Len(retries') = Len(retries) + 1 - d
          /\ \A i \in 1 .. Len(retries') - 1 :
               i + d \in 1 .. Len(retries) /\ retries'[i] = retries[i + d]
    BY <1>1, <2>1, <2>2, AddedLast
  <2>5. \A i \in 1 .. Len(retries') : retries'[i].revision = retries'[i].proposed
    <3>1. TAKE i \in 1 .. Len(retries')
    <3>2. CASE i = Len(retries')
      BY <2>2, <2>3, <3>2
    <3>3. CASE i # Len(retries')
      <4>1. i \in 1 .. Len(retries') - 1
        BY <2>3, <3>3
      <4>2. i + d \in 1 .. Len(retries) /\ retries'[i] = retries[i + d]
        BY <2>4, <4>1
      <4>3. QED  BY <4>2 DEF IInv, RetryInv
    <3>4. QED  BY <3>2, <3>3
  <2>6. RetryInv'
    BY <1>2, <2>5 DEF RetryInv
  <2>7. Len(retries') \in 1 .. Len(retries')
    BY <2>3
  <2>8. QED  BY <1>1, <2>1, <2>2, <2>3, <2>6, <2>7
<1>5. QED  BY <1>3, <1>4

\* So all stays calm, if it was.
LEMMA FailsKeepsCalm ==
  ASSUME IInv, pc \in Saved, Fails, UNCHANGED <<config, file, head, meddled>>
  PROVE  CalmInv'
<1>1. pc' = "idle" /\ entry' = entry
  BY DEF Fails, Answers
<1>2. SUFFICES ASSUME calm' PROVE CalmInv'
  BY DEF CalmInv
<1>3. /\ calm /\ ~meddled
      /\ \E i \in 1 .. Len(retries') :
           retries'[i].settings = config /\ retries'[i].revision = entry.proposed
  BY <1>2, FailsKeepsRetry DEF IInv, CalmInv
<1>4. pc # "idle" /\ file[config.path] = entry.proposed
  BY <1>3 DEF IInv, FileInv, Saved
<1>5. config.git => \A q \in Paths \ {config.path} : file[q] = head[q]
  BY <1>3 DEF IInv, CalmInv
<1>6. QED  BY <1>1, <1>3, <1>4, <1>5 DEF CalmInv

\* A token that goes leaves tokens that were there.
LEMMA CommitsKeepsRetries ==
  ASSUME IInv, Commits
  PROVE  /\ retries' \in Seq(Entry) /\ Len(retries') <= MaxPending /\ RetryInv'
         /\ calm' = calm
<1>1. retries \in Seq(Entry) /\ Len(retries) <= MaxPending
  BY DEF IInv, TypeInv, TypeOK
<1>2. pc' = "idle" /\ calm' = calm
  BY DEF Commits, Answers
<1>3. CASE kind = "retry"
  <2>1. PICK i \in 1 .. Len(retries) : retries' = RemoveAt(retries, i)
    BY <1>3 DEF Commits, Deletes
  <2>2. /\ retries' \in Seq(Entry) /\ Len(retries') = Len(retries) - 1
        /\ \A k \in 1 .. Len(retries) - 1 :
             retries'[k] = retries[IF k < i THEN k ELSE k + 1]
    BY <1>1, <2>1, Removed
  <2>3. \A k \in 1 .. Len(retries') : retries'[k].revision = retries'[k].proposed
    BY <1>1, <2>2 DEF IInv, RetryInv
  <2>4. RetryInv'
    BY <1>2, <2>3 DEF RetryInv
  <2>5. Len(retries') <= MaxPending
    BY <1>1, <2>2, HostWritesAssumption
  <2>6. QED  BY <1>2, <2>2, <2>4, <2>5
<1>4. CASE kind # "retry"
  <2>1. retries' = retries
    BY <1>4 DEF Commits
  <2>2. QED  BY <1>1, <1>2, <2>1 DEF IInv, RetryInv
<1>5. QED  BY <1>3, <1>4

-----------------------------------------------------------------------------
(* Every step keeps the invariant *)

\* The initial states satisfy it.
LEMMA InitInv == Init => IInv
<1> SUFFICES ASSUME Init PROVE IInv
  OBVIOUS
<1>1. TypeInv
  <2>1. /\ <<>> \in Seq(Contents \cup {Torn}) /\ <<>> \in Seq(Entry)
        /\ <<>> \in Seq([path : Paths, content : Contents])
        /\ Len(<<>>) <= MaxPending /\ tokens \in 0 .. MaxTokens /\ {} \in Contents
    BY HostWritesAssumption DEF Init, Contents
  <2>2. /\ file \in [Paths -> Contents] /\ head \in [Paths -> Contents]
        /\ index \in [Paths -> Contents] /\ other \in BOOLEAN
        /\ backups \in [Paths -> Seq(Contents \cup {Torn})] /\ config \in Configs
        /\ previews \in Seq(Entry) /\ retries \in Seq(Entry)
        /\ Len(previews) <= MaxPending /\ Len(retries) <= MaxPending
        /\ prior \in Seq([path : Paths, content : Contents])
        /\ target \in Paths
    BY <2>1, HostWritesAssumption DEF Init, ConfigRecord
  <2>3. QED  BY <2>1, <2>2 DEF Init, TypeInv, TypeOK
<1>2. TokenInv /\ RetryInv
  BY DEF Init, TokenInv, RetryInv, Unsaved
<1>3. FileInv
  BY DEF Init, FileInv, AnswersAreTrue, Unsaved, Saved
<1>4. BackupInv /\ CalmInv
  BY DEF Init, BackupInv, CalmInv, LastIsRecoverable
<1>5. QED  BY <1>1, <1>2, <1>3, <1>4 DEF IInv

\* The token is below all the others, and unused.
LEMMA PreviewStep ==
  ASSUME IInv, NEW c \in Contents, Preview(c)
  PROVE  IInv'
<1> DEFINE e == [token |-> tokens, settings |-> config, revision |-> file[config.path], proposed |-> c]
<1>a. tokens \in Tokens /\ tokens' = tokens - 1 /\ previews' = Added(previews, e)
  BY HostWritesAssumption DEF IInv, TypeInv, Preview, Tokens
<1>b. previews \in Seq(Entry) /\ Len(previews) <= MaxPending
  BY DEF IInv, TypeInv, TypeOK
<1>c. e \in Entry /\ e.token = tokens
  <2>1. config \in Configs /\ config.path \in Paths /\ file[config.path] \in Contents
    BY HostWritesAssumption DEF IInv, TypeInv, TypeOK, ConfigRecord
  <2>2. QED  BY <1>a, <2>1 DEF Entry
<1> HIDE DEF e
<1>d. /\ previews' \in Seq(Entry) /\ Len(previews') <= MaxPending
      /\ Len(previews') > 0 /\ previews'[Len(previews')] = e
  BY <1>a, <1>b, <1>c, AddedLast
<1>e. PICK d \in {0, 1} :
        /\ Len(previews') = Len(previews) + 1 - d
        /\ \A i \in 1 .. Len(previews') - 1 :
             i + d \in 1 .. Len(previews) /\ previews'[i] = previews[i + d]
  BY <1>a, <1>b, <1>c, AddedLast
<1>1. TypeInv'
  <2>1. tokens' \in 0 .. MaxTokens
    BY <1>a, HostWritesAssumption DEF Tokens
  <2>2. QED  BY <1>d, <2>1 DEF IInv, TypeInv, TypeOK, Preview, source, request, history
<1>2. TokenInv'
  <2>1. \A i \in 1 .. Len(previews') :
          previews'[i].token > tokens' /\ previews'[i].token \notin used
    <3>1. TAKE i \in 1 .. Len(previews')
    <3>2. CASE i = Len(previews')
      BY <1>a, <1>c, <1>d, <3>2 DEF IInv, TokenInv, Tokens
    <3>3. CASE i # Len(previews')
      <4>1. i + d \in 1 .. Len(previews) /\ previews'[i] = previews[i + d]
        BY <1>d, <1>e, <3>3
      <4>2. previews[i + d] \in Entry
        BY <1>b, <4>1
      <4>3. QED  BY <1>a, <4>1, <4>2 DEF IInv, TokenInv, Tokens, Entry
    <3>4. QED  BY <3>2, <3>3
  <2>2. \A i, j \in 1 .. Len(previews') :
          previews'[i].token = previews'[j].token => i = j
    <3>1. \A i \in 1 .. Len(previews') : i # Len(previews') =>
            i + d \in 1 .. Len(previews) /\ previews'[i] = previews[i + d]
              /\ previews'[i].token > tokens
      BY <1>d, <1>e DEF IInv, TokenInv
    <3>2. previews'[Len(previews')].token = tokens /\ ~(tokens > tokens)
      BY <1>a, <1>c, <1>d DEF Tokens
    <3>3. \A i, j \in 1 .. Len(previews') : i # Len(previews') /\ j # Len(previews')
            /\ previews'[i].token = previews'[j].token => i = j
      BY <1>d, <3>1 DEF IInv, TokenInv
    <3>4. QED  BY <3>1, <3>2, <3>3
  <2>3. \A t \in used : t > tokens'
    <3>1. used \subseteq Tokens
      BY DEF IInv, TypeInv, TypeOK
    <3>2. \A t \in used : t > tokens
      BY DEF IInv, TokenInv
    <3>3. QED  BY <1>a, <3>1, <3>2 DEF Tokens
  <2>4. QED  BY <2>1, <2>2, <2>3 DEF TokenInv, Preview, request, history, Unsaved
<1>3. RetryInv'
  BY DEF IInv, RetryInv, Preview, source, request, history
<1>4. FileInv'
  BY DEF IInv, FileInv, AnswersAreTrue, Unsaved, Saved, Preview, source, request, history
<1>5. BackupInv'
  BY DEF IInv, BackupInv, LastIsRecoverable, Preview, source, request, history
<1>6. CalmInv'
  BY DEF IInv, CalmInv, Saved, Preview, source, request, history
<1>7. QED  BY <1>1, <1>2, <1>3, <1>4, <1>5, <1>6 DEF IInv

\* Another program's write is seen by raced and meddled.
LEMMA WritesStep ==
  ASSUME IInv, NEW p \in Paths, NEW c \in Contents, Writes(p, c)
  PROVE  IInv'
<1>1. TypeInv'
  BY DEF IInv, TypeInv, TypeOK, Writes, Outsider, pending, request
<1>2. TokenInv'
  BY DEF IInv, TokenInv, Unsaved, Writes, Outsider, pending, request
<1>3. RetryInv'
  BY DEF IInv, RetryInv, Writes, Outsider, pending, request
<1>4. FileInv'
  <2>1. /\ raced' = (raced \/ p = target) /\ meddled' = TRUE
        /\ UNCHANGED <<pc, kind, entry, target, told, slipped, config>>
        /\ file' = [file EXCEPT ![p] = c]
    BY DEF Writes, Outsider, request
  <2>2. ~raced' => ~raced /\ file'[target] = file[target]
    BY <2>1 DEF IInv, TypeInv, TypeOK
  <2>3. QED  BY <2>1, <2>2 DEF IInv, FileInv, AnswersAreTrue
<1>5. BackupInv'
  BY DEF IInv, BackupInv, LastIsRecoverable, Writes, Outsider, pending, request
<1>6. CalmInv'
  BY DEF IInv, CalmInv, Saved, Writes, Outsider, pending, request
<1>7. QED  BY <1>1, <1>2, <1>3, <1>4, <1>5, <1>6 DEF IInv

\* What is left was there; a lost retry ends the calm.
LEMMA ExpiresStep ==
  ASSUME IInv, Expires
  PROVE  IInv'
<1>a. /\ previews \in Seq(Entry) /\ Len(previews) <= MaxPending
      /\ retries \in Seq(Entry) /\ Len(retries) <= MaxPending
  BY DEF IInv, TypeInv, TypeOK
<1>b. /\ previews' \in Seq(Entry) /\ Len(previews') <= MaxPending
      /\ \/ previews' = previews
         \/ \A i \in 1 .. Len(previews') :
              i + 1 \in 1 .. Len(previews) /\ previews'[i] = previews[i + 1]
  <2>1. CASE previews' = previews
    BY <1>a, <2>1
  <2>2. CASE previews # <<>> /\ previews' = Tail(previews)
    <3>1. /\ previews' \in Seq(Entry) /\ Len(previews') = Len(previews) - 1
          /\ \A i \in 1 .. Len(previews') : previews'[i] = previews[i + 1]
      BY <1>a, <2>2, HeadTailProperties
    <3>2. \A i \in 1 .. Len(previews') : i + 1 \in 1 .. Len(previews)
      BY <1>a, <3>1
    <3>3. Len(previews') <= MaxPending
      BY <1>a, <3>1, HostWritesAssumption
    <3>4. QED  BY <3>1, <3>2, <3>3
  <2>3. QED  BY <2>1, <2>2 DEF Expires
<1>c. retries' \in Seq(Entry) /\ Len(retries') <= MaxPending
  <2>1. CASE retries' = retries
    BY <1>a, <2>1
  <2>2. CASE retries # <<>> /\ retries' = Tail(retries)
    <3>1. retries' \in Seq(Entry) /\ Len(retries') = Len(retries) - 1
      BY <1>a, <2>2, HeadTailProperties
    <3>2. QED  BY <1>a, <3>1, HostWritesAssumption
  <2>3. QED  BY <2>1, <2>2 DEF Expires
<1>1. TypeInv'
  BY <1>b, <1>c DEF IInv, TypeInv, TypeOK, Expires, source, request, bounds
<1>2. TokenInv'
  <2>1. CASE previews' = previews
    BY <2>1 DEF IInv, TokenInv, Expires, request, bounds
  <2>2. CASE \A i \in 1 .. Len(previews') :
               i + 1 \in 1 .. Len(previews) /\ previews'[i] = previews[i + 1]
    <3>1. \A i, j \in 1 .. Len(previews') :
            previews'[i].token = previews'[j].token => i + 1 = j + 1
      BY <2>2 DEF IInv, TokenInv
    <3>2. pc' = "idle"
      BY DEF Expires, request
    <3>3. QED  BY <2>2, <3>1, <3>2 DEF IInv, TokenInv, Expires, bounds, Unsaved
  <2>3. QED  BY <1>b, <2>1, <2>2
<1>3. RetryInv'
  BY DEF IInv, RetryInv, Expires, source, request, bounds
<1>4. FileInv'
  BY DEF IInv, FileInv, AnswersAreTrue, Unsaved, Saved, Expires, source, request, bounds
<1>5. BackupInv'
  BY DEF IInv, BackupInv, LastIsRecoverable, Expires, source, request, bounds
<1>6. CalmInv'
  BY DEF IInv, CalmInv, Saved, Expires, source, request, bounds
<1>7. QED  BY <1>1, <1>2, <1>3, <1>4, <1>5, <1>6 DEF IInv

\* A request begins only with the settings and the file of its token.
LEMMA ApplyStep ==
  ASSUME IInv, Apply
  PROVE  IInv'
<1>1. TypeInv'
  <2>1. PICK i \in 1 .. Len(previews) : entry' = previews[i]
    BY DEF Apply, Begins
  <2>2. entry' \in Entry
    BY <2>1 DEF IInv, TypeInv, TypeOK
  <2>3. QED
    BY <2>2, PathOfConfig DEF IInv, TypeInv, TypeOK, Apply, Begins, source, pending, bounds
<1>2. TokenInv'
  BY DEF IInv, TokenInv, Unsaved, Apply, Begins, source, pending, bounds
<1>3. RetryInv'
  BY DEF IInv, RetryInv, Apply, Begins, source, pending, bounds
<1>4. FileInv'
   BY DEF IInv, FileInv, AnswersAreTrue, Unsaved, Saved, Apply, Begins, source, pending,
     bounds
<1>5. BackupInv'
  BY DEF IInv, BackupInv, LastIsRecoverable, Apply, Begins, source, pending, bounds
<1>6. CalmInv'
  BY DEF IInv, CalmInv, Saved, Apply, Begins, source, pending, bounds
<1>7. QED  BY <1>1, <1>2, <1>3, <1>4, <1>5, <1>6 DEF IInv

\* What a retry token was made for is still in the file.
LEMMA RetryStep ==
  ASSUME IInv, Retry
  PROVE  IInv'
<1>1. TypeInv'
  <2>1. PICK i \in 1 .. Len(retries) : entry' = retries[i]
    BY DEF Retry, Begins
  <2>2. entry' \in Entry
    BY <2>1 DEF IInv, TypeInv, TypeOK
  <2>3. QED
    BY <2>2, PathOfConfig DEF IInv, TypeInv, TypeOK, Retry, Begins, source, pending, bounds
<1>2. TokenInv'
  BY DEF IInv, TokenInv, Unsaved, Retry, Begins, source, pending, bounds
<1>3. RetryInv'
  BY DEF IInv, RetryInv, Retry, Begins, source, pending, bounds
<1>4. FileInv'
   BY DEF IInv, FileInv, AnswersAreTrue, Unsaved, Saved, RetryInv, Retry, Begins,
     source, pending, bounds
<1>5. BackupInv'
  BY DEF IInv, BackupInv, LastIsRecoverable, Retry, Begins, source, pending, bounds
<1>6. CalmInv'
  BY DEF IInv, CalmInv, Saved, Retry, Begins, source, pending, bounds
<1>7. QED  BY <1>1, <1>2, <1>3, <1>4, <1>5, <1>6 DEF IInv

\* With Git, what goes on is what HEAD holds.
LEMMA ChecksStep ==
  ASSUME IInv, Checks
  PROVE  IInv'
<1>1. TypeInv'
   BY PathOfConfig DEF IInv, TypeInv, TypeOK, Checks, Clean, Goes, Answers, Faultless, Fault,
     Failures, source, pending, history
<1>2. TokenInv'
   BY DEF IInv, TokenInv, Unsaved, Checks, Clean, Goes, Answers, Faultless, Fault,
     Failures, source, pending, history
<1>3. RetryInv'
  BY DEF IInv, RetryInv, Checks, Clean, Goes, Answers, source, pending, history
<1>4. FileInv'
   BY DEF IInv, FileInv, AnswersAreTrue, Unsaved, Saved, Checks, Clean, Goes, Answers,
     source, pending, history
<1>5. BackupInv'
   BY DEF IInv, BackupInv, LastIsRecoverable, Checks, Clean, Goes, Answers, source,
     pending, history
<1>6. CalmInv'
  BY DEF IInv, CalmInv, Saved, Checks, Clean, Goes, Answers, source, pending, history
<1>7. QED  BY <1>1, <1>2, <1>3, <1>4, <1>5, <1>6 DEF IInv

\* The backup comes first, and the others stay.
LEMMA BacksUpStep ==
  ASSUME IInv, BacksUp
  PROVE  IInv'
<1>a. /\ TypeInv /\ LastIsRecoverable /\ prior' = prior /\ target' = target
      /\ entry.revision \in Contents \cup {Torn} /\ Torn \in Contents \cup {Torn}
  BY DEF IInv, TypeInv, TypeOK, BackupInv, BacksUp, Entry, history
<1>b. \/ backups' = backups /\ pc' = "idle"
      \/ /\ pc' = "idle"
         /\ \E x \in Contents \cup {Torn} : backups' = [backups EXCEPT ![target] = <<x>> \o @]
      \/ /\ pc' = "backed"
         /\ backups' = [backups EXCEPT ![target] = <<entry.revision>> \o @]
  BY <1>a DEF BacksUp, Goes, Answers
<1>c. /\ backups' \in [Paths -> Seq(Contents \cup {Torn})] /\ LastIsRecoverable'
      /\ pc' \in {"idle", "backed"}
      /\ pc' = "backed" => backups'[target] # <<>> /\ backups'[target][1] = entry.revision
  <2>1. CASE backups' = backups /\ pc' = "idle"
    BY <1>a, <2>1 DEF LastIsRecoverable, TypeInv, TypeOK
  <2>2. CASE pc' = "idle" /\ \E x \in Contents \cup {Torn} :
                               backups' = [backups EXCEPT ![target] = <<x>> \o @]
    BY <1>a, <2>2, PutFirst, StillRecoverable
  <2>3. CASE pc' = "backed" /\ backups' = [backups EXCEPT ![target] = <<entry.revision>> \o @]
    BY <1>a, <2>3, PutFirst, StillRecoverable
  <2>4. QED  BY <1>b, <2>1, <2>2, <2>3
<1>1. TypeInv'
  BY <1>c DEF IInv, TypeInv, TypeOK, BacksUp, Goes, Answers, Faultless, Fault, Failures,
              source, pending, history
<1>2. TokenInv'
   BY DEF IInv, TokenInv, Unsaved, BacksUp, Goes, Answers, Faultless, Fault, Failures,
     source, pending, history
<1>3. RetryInv'
  BY DEF IInv, RetryInv, BacksUp, Goes, Answers, source, pending, history
<1>4. FileInv'
   BY DEF IInv, FileInv, AnswersAreTrue, Unsaved, Saved, BacksUp, Goes, Answers, source,
     pending, history
<1>5. BackupInv'
  <2>1. entry' = entry /\ (pc' = "backed" \/ pc' = "idle")
    BY <1>c DEF BacksUp, Goes, Answers
  <2>2. QED  BY <1>a, <1>c, <2>1 DEF BackupInv
<1>6. CalmInv'
  BY DEF IInv, CalmInv, Saved, BacksUp, Goes, Answers, source, pending, history
<1>7. QED  BY <1>1, <1>2, <1>3, <1>4, <1>5, <1>6 DEF IInv

\* After the check of the revision nobody has written.
LEMMA RechecksStep ==
  ASSUME IInv, Rechecks
  PROVE  IInv'
<1>1. TypeInv'
   BY DEF IInv, TypeInv, TypeOK, Rechecks, Goes, Answers, Faultless, Fault, Failures,
     source, pending
<1>2. TokenInv'
   BY DEF IInv, TokenInv, Unsaved, Rechecks, Goes, Answers, Faultless, Fault, Failures,
     source, pending
<1>3. RetryInv'
  BY DEF IInv, RetryInv, Rechecks, Goes, Answers, source, pending
<1>4. FileInv'
  <2>1. /\ pc = "backed" /\ raced' = (config.path # target) /\ (pc' = "ready" \/ pc' = "idle")
        /\ pc' = "ready" => file[config.path] = entry.revision /\ UNCHANGED told
        /\ pc' = "idle" => told' = "unsaved"
        /\ UNCHANGED <<file, head, config, kind, entry, target, meddled, slipped>>
    BY DEF Rechecks, Goes, Answers
  <2>2. /\ kind # "none" /\ told = "nothing"
        /\ ~meddled => target = config.path /\ file[target] = entry.revision
    BY <2>1 DEF IInv, FileInv, Unsaved
  <2>3. QED  BY <2>1, <2>2 DEF FileInv, AnswersAreTrue, Unsaved, Saved
<1>5. BackupInv'
  BY DEF IInv, BackupInv, LastIsRecoverable, Rechecks, Goes, Answers, source, pending
<1>6. CalmInv'
  BY DEF IInv, CalmInv, Saved, Rechecks, Goes, Answers, source, pending
<1>7. QED  BY <1>1, <1>2, <1>3, <1>4, <1>5, <1>6 DEF IInv

\* The token goes with the save; prior is what the newest backup holds.
LEMMA ReplacesStep ==
  ASSUME IInv, Replaces
  PROVE  IInv'
<1>a. /\ previews \in Seq(Entry) /\ Len(previews) <= MaxPending /\ entry \in Entry
      /\ file \in [Paths -> Contents] /\ target \in Paths
      /\ backups \in [Paths -> Seq(Contents \cup {Torn})]
      /\ backups[target] # <<>> /\ backups[target][1] = entry.revision
      /\ (~raced => file[target] = entry.revision)
  BY DEF IInv, TypeInv, TypeOK, Replaces, BackupInv, FileInv
<1>b. \/ /\ pc' = "idle" /\ previews' = previews /\ used' = used
         /\ (file' = file /\ prior' = prior /\ told' = "unsaved" /\ UNCHANGED <<slipped, calm>>)
              \/ (Puts /\ slipped' = TRUE /\ calm' = FALSE)
      \/ /\ pc' = "replaced" /\ Puts /\ used' = used \cup {entry.token} /\ tokens' = tokens
         /\ \E i \in 1 .. Len(previews) :
              previews[i] = entry /\ previews' = RemoveAt(previews, i)
         /\ UNCHANGED <<told, slipped, calm>>
  BY DEF Replaces, Deletes, Goes, Answers, Faultless, Failures
<1>c. /\ UNCHANGED <<head, index, backups, config, retries, target, raced, meddled, kind, entry>>
      /\ tokens' = tokens /\ other' \in BOOLEAN
  BY DEF Replaces, Goes, Answers, Faultless, Fault, Failures, IInv, TypeInv, TypeOK
<1>d. ASSUME Puts
      PROVE  /\ file' = [file EXCEPT ![target] = entry.proposed]
             /\ file' \in [Paths -> Contents] /\ file'[target] = entry.proposed
             /\ prior' \in Seq([path : Paths, content : Contents])
             /\ \A i \in 1 .. Len(prior') :
                  prior'[i] = [path |-> target, content |-> entry.revision]
             /\ LastIsRecoverable'
  <2> DEFINE r == [path |-> target, content |-> entry.revision]
  <2>1. file' = [file EXCEPT ![target] = entry.proposed] /\ entry.proposed \in Contents
    BY <1>a, <1>d DEF Puts, Entry
  <2>2. file' \in [Paths -> Contents] /\ file'[target] = entry.proposed
    BY <1>a, <2>1
  <2>3. r \in [path : Paths, content : Contents] /\ r.path = target /\ r.content = entry.revision
    BY <1>a DEF Entry
  <2>4. prior' = <<>> \/ prior' = <<r>>
    BY <1>a, <1>d DEF Puts
  <2> DEFINE R == [path : Paths, content : Contents]
  <2> HIDE DEF r, R
  <2>5. /\ prior' \in Seq(R) /\ DOMAIN prior' = 1 .. Len(prior')
        /\ \A i \in 1 .. Len(prior') : prior'[i] = r
    <3>1. r \in R
      BY <2>3 DEF R
    <3>2. CASE prior' = <<>>
      BY <3>2
    <3>3. CASE prior' = <<r>>
      BY <3>1, <3>3
    <3>4. QED  BY <2>4, <3>2, <3>3
  <2>6. 1 \in DOMAIN backups[target] /\ backups' = backups
    BY <1>a, <1>c
  <2>7. LastIsRecoverable'
    BY <1>a, <2>3, <2>5, <2>6 DEF LastIsRecoverable
  <2>8. QED  BY <2>1, <2>2, <2>5, <2>7 DEF r, R
<1>1. TypeInv'
  <2>1. previews' \in Seq(Entry) /\ Len(previews') <= MaxPending
    <3>1. CASE previews' = previews
      BY <1>a, <3>1
    <3>2. CASE \E i \in 1 .. Len(previews) : previews' = RemoveAt(previews, i)
      <4>1. previews' \in Seq(Entry) /\ Len(previews') = Len(previews) - 1
        BY <1>a, <3>2, Removed
      <4>2. QED  BY <1>a, <4>1, HostWritesAssumption
    <3>3. QED  BY <1>b, <3>1, <3>2
  <2>2. /\ file' \in [Paths -> Contents] /\ used' \subseteq Tokens
        /\ prior' \in Seq([path : Paths, content : Contents])
    <3>1. entry.token \in Tokens
      BY <1>a DEF Entry
    <3>2. /\ used \subseteq Tokens /\ file \in [Paths -> Contents]
          /\ prior \in Seq([path : Paths, content : Contents])
      BY DEF IInv, TypeInv, TypeOK
    <3>3. QED  BY <1>b, <1>d, <3>1, <3>2
  <2>3. /\ pc' \in {"idle", "replaced"} /\ slipped' \in BOOLEAN /\ calm' \in BOOLEAN
        /\ told' \in {"nothing", "unsaved", "disabled", "failed", "committed"}
    BY DEF IInv, TypeInv, TypeOK, Replaces, Goes, Answers
  <2>4. QED
    BY <1>a, <1>c, <2>1, <2>2, <2>3 DEF IInv, TypeInv, TypeOK
<1>2. TokenInv'
  <2>1. CASE previews' = previews /\ used' = used /\ pc' = "idle"
    BY <1>c, <2>1 DEF IInv, TokenInv, Unsaved
   <2>2. CASE \E i \in 1 .. Len(previews) : previews[i] = entry /\ previews' =
     RemoveAt(previews, i)
                                            /\ ~(previews' = previews /\ used' = used /\
                                              pc' = "idle")
    <3>1. PICK i \in 1 .. Len(previews) :
            previews[i] = entry /\ previews' = RemoveAt(previews, i)
      BY <2>2
    <3>2. /\ previews' \in Seq(Entry) /\ Len(previews') = Len(previews) - 1
          /\ \A k \in 1 .. Len(previews) - 1 :
               previews'[k] = previews[IF k < i THEN k ELSE k + 1]
      BY <1>a, <3>1, Removed
    <3>3. \A k \in 1 .. Len(previews') : \E m \in 1 .. Len(previews) :
            m # i /\ m = (IF k < i THEN k ELSE k + 1) /\ previews'[k] = previews[m]
      <4>1. TAKE k \in 1 .. Len(previews')
      <4>2. k \in 1 .. Len(previews) - 1
        BY <3>2
      <4>3. /\ (IF k < i THEN k ELSE k + 1) \in 1 .. Len(previews)
            /\ (IF k < i THEN k ELSE k + 1) # i
        BY <1>a, <4>2
      <4>4. QED  BY <3>2, <4>2, <4>3
    <3>4. /\ used' = used \cup {entry.token} /\ pc' = "replaced" /\ tokens' = tokens
      BY <1>b, <2>2
    <3>5. \A k \in 1 .. Len(previews') :
            previews'[k].token > tokens /\ previews'[k].token \notin used
              /\ previews'[k].token # entry.token
      BY <3>1, <3>3 DEF IInv, TokenInv
    <3>6. \A k, l \in 1 .. Len(previews') :
            previews'[k].token = previews'[l].token => k = l
      BY <3>3 DEF IInv, TokenInv
    <3>7. entry.token > tokens
      BY <3>1 DEF IInv, TokenInv
    <3>8. QED  BY <3>4, <3>5, <3>6, <3>7 DEF IInv, TokenInv, Unsaved
  <2>3. QED  BY <1>b, <2>1, <2>2
<1>3. RetryInv'
  <2>1. pc = "ready"
    BY DEF Replaces
  <2>2. kind # "retry" /\ kind' # "retry"
    BY <1>c, <2>1 DEF IInv, RetryInv
  <2>3. QED  BY <1>c, <2>2 DEF IInv, RetryInv
<1>4. FileInv'
  <2>1. /\ pc = "ready" /\ pc \in Unsaved /\ kind # "none" /\ told = "nothing"
        /\ ~meddled => target = config.path /\ file[target] = entry.revision
    <3>1. pc = "ready"
      BY DEF Replaces
    <3>2. QED  BY <3>1 DEF IInv, FileInv, Unsaved
  <2>2. CASE pc' = "idle" /\ file' = file /\ told' = "unsaved"
    BY <1>c, <2>1, <2>2 DEF FileInv, AnswersAreTrue, Unsaved, Saved
  <2>3. CASE pc' = "idle" /\ slipped' = TRUE
    BY <2>3 DEF FileInv, AnswersAreTrue, Unsaved, Saved
  <2>4. CASE pc' = "replaced" /\ Puts /\ UNCHANGED told
    BY <1>c, <1>d, <2>1, <2>4 DEF FileInv, AnswersAreTrue, Unsaved, Saved
  <2>5. QED  BY <1>b, <2>2, <2>3, <2>4
<1>5. BackupInv'
  <2>1. CASE pc' = "idle" /\ prior' = prior
    BY <1>c, <2>1 DEF IInv, BackupInv, LastIsRecoverable
  <2>2. CASE pc' = "idle" /\ Puts
    BY <1>d, <2>2 DEF BackupInv
  <2>3. CASE pc' = "replaced" /\ Puts
    BY <1>a, <1>c, <1>d, <2>3 DEF BackupInv
  <2>4. QED  BY <1>b, <2>1, <2>2, <2>3
<1>6. CalmInv'
  <2>1. CASE calm' = FALSE
    BY <2>1 DEF CalmInv
  <2>2. CASE pc' = "idle" /\ file' = file /\ calm' = calm
    BY <1>c, <2>2 DEF IInv, CalmInv, Replaces
  <2>3. CASE pc' = "replaced" /\ Puts /\ calm' = calm
    <3>1. SUFFICES ASSUME calm PROVE CalmInv'
      BY <2>3 DEF CalmInv
    <3>2. /\ ~meddled /\ target = config.path /\ entry.settings = config
          /\ config.git => \A q \in Paths \ {config.path} : file[q] = head[q]
      BY <3>1 DEF IInv, CalmInv, FileInv, Replaces
    <3>3. \A q \in Paths \ {config.path} : file'[q] = file[q]
      BY <1>a, <1>d, <2>3, <3>2
    <3>4. QED  BY <1>c, <2>3, <3>2, <3>3 DEF CalmInv
  <2>4. QED  BY <1>b, <2>1, <2>2, <2>3
<1>7. QED  BY <1>1, <1>2, <1>3, <1>4, <1>5, <1>6 DEF IInv

\* At least the newest backup is kept.
LEMMA RetainsStep ==
  ASSUME IInv, Retains
  PROVE  IInv'
<1>a. /\ target \in Paths /\ prior \in Seq([path : Paths, content : Contents])
      /\ backups \in [Paths -> Seq(Contents \cup {Torn})]
      /\ backups[target] # <<>> /\ backups[target][1] = entry.revision
      /\ \A i \in 1 .. Len(prior) : prior[i] = [path |-> target, content |-> entry.revision]
      /\ config.keep \in Nat \ {0}
  BY HostWritesAssumption DEF IInv, TypeInv, TypeOK, Retains, BackupInv, ConfigRecord
<1>b. /\ backups' \in [Paths -> Seq(Contents \cup {Torn})]
      /\ backups'[target] # <<>> /\ backups'[target][1] = entry.revision
  <2> DEFINE q == backups[target]
  <2>1. CASE backups' = backups
    BY <1>a, <2>1
  <2>2. CASE backups' = [backups EXCEPT ![target] = Newest(@)]
    <3>1. q \in Seq(Contents \cup {Torn}) /\ q # <<>> /\ q[1] = entry.revision
      BY <1>a
    <3>2. backups' = [backups EXCEPT ![target] = Newest(q)]
      BY <2>2
    <3> HIDE DEF q
    <3>3. Newest(q) \in Seq(Contents \cup {Torn}) /\ Newest(q) # <<>> /\ Newest(q)[1] = q[1]
      <4>1. CASE Len(q) <= config.keep
        BY <3>1, <4>1 DEF Newest
      <4>2. CASE ~(Len(q) <= config.keep)
        <5>1. /\ SubSeq(q, 1, config.keep) \in Seq(Contents \cup {Torn})
              /\ Len(SubSeq(q, 1, config.keep)) = config.keep
              /\ SubSeq(q, 1, config.keep)[1] = q[1]
          BY <1>a, <3>1, <4>2, SubSeqProperties
        <5>2. Newest(q) = SubSeq(q, 1, config.keep)
          BY <4>2 DEF Newest
        <5>3. SubSeq(q, 1, config.keep) # <<>>
          BY <1>a, <5>1
        <5>4. QED  BY <5>1, <5>2, <5>3
      <4>3. QED  BY <4>1, <4>2
    <3>4. QED  BY <1>a, <3>1, <3>2, <3>3
  <2>3. QED  BY <2>1, <2>2 DEF Retains
<1>1. TypeInv'
  BY <1>b DEF IInv, TypeInv, TypeOK, Retains, Goes, Faultless, Fault, Failures,
              source, pending, history
<1>2. TokenInv'
   BY DEF IInv, TokenInv, Unsaved, Retains, Goes, Answers, Faultless, Fault, Failures,
     source, pending, history
<1>3. RetryInv'
  BY DEF IInv, RetryInv, Retains, Goes, Answers, source, pending, history
<1>4. FileInv'
   BY DEF IInv, FileInv, AnswersAreTrue, Unsaved, Saved, Retains, Goes, Answers, source,
     pending, history
<1>5. BackupInv'
  <2>1. prior' = prior /\ entry' = entry /\ pc' = "retained"
    BY DEF Retains, Goes, history
  <2>2. DOMAIN prior = 1 .. Len(prior) /\ 1 \in DOMAIN backups'[target]
    BY <1>a, <1>b
  <2>3. \A i \in DOMAIN prior : prior[i].path = target /\ prior[i].content = entry.revision
    BY <1>a, <2>2
  <2>4. LastIsRecoverable'
    BY <1>b, <2>1, <2>2, <2>3 DEF LastIsRecoverable
  <2>5. QED  BY <2>1, <2>4 DEF BackupInv
<1>6. CalmInv'
  BY DEF IInv, CalmInv, Saved, Retains, Goes, Answers, source, pending, history
<1>7. QED  BY <1>1, <1>2, <1>3, <1>4, <1>5, <1>6 DEF IInv

\* A failure hands out a retry, anything else goes on to the commit.
LEMMA DecidesStep ==
  ASSUME IInv, Decides
  PROVE  IInv'
<1>a. pc = "retained" /\ pc \in Saved /\ entry \in Entry
  BY DEF IInv, TypeInv, TypeOK, Decides, Saved
<1>b. \/ UNCHANGED <<pending, calm>> /\ config.git /\ pc' = "committing"
      \/ UNCHANGED <<pending, calm>> /\ ~config.git /\ pc' = "idle"
      \/ Fails /\ pc' = "idle"
  BY DEF Decides, Fails, Goes, Answers
<1>c. retries' \in Seq(Entry) /\ Len(retries') <= MaxPending /\ calm' \in BOOLEAN
  BY <1>a, <1>b, FailsKeepsRetry DEF IInv, TypeInv, TypeOK, pending
<1>1. TypeInv'
   BY <1>a, <1>c DEF IInv, TypeInv, TypeOK, Decides, Fails, Goes, Answers, Faultless,
     Fault,
                    Failures, source, pending
<1>2. TokenInv'
   BY DEF IInv, TokenInv, Unsaved, Decides, Fails, Goes, Answers, Faultless, Fault,
     Failures, source, pending
<1>3. RetryInv'
  <2>1. CASE UNCHANGED <<pending, calm>>
    <3>1. kind # "retry" /\ kind' = kind
      BY <1>a DEF IInv, RetryInv, Decides, Fails, Goes, Answers
    <3>2. QED  BY <2>1, <3>1 DEF IInv, RetryInv, pending
  <2>2. CASE Fails
    BY <1>a, <2>2, FailsKeepsRetry
  <2>3. QED  BY <1>b, <2>1, <2>2
<1>4. FileInv'
   BY DEF IInv, FileInv, AnswersAreTrue, Unsaved, Saved, Decides, Fails, Goes, Answers,
     source, pending
<1>5. BackupInv'
   BY DEF IInv, BackupInv, LastIsRecoverable, Decides, Fails, Goes, Answers, source,
     pending
<1>6. CalmInv'
  <2>1. UNCHANGED <<config, file, head, meddled, entry, target>>
    BY DEF Decides, source, Fails, Goes, Answers
  <2>2. CASE UNCHANGED <<pending, calm>> /\ (pc' = "committing" \/ ~config.git)
    <3>1. UNCHANGED <<retries, calm>>
      BY <2>2 DEF pending
    <3>2. QED  BY <1>a, <2>1, <2>2, <3>1 DEF IInv, CalmInv
  <2>3. CASE Fails
    BY <1>a, <2>1, <2>3, FailsKeepsCalm
  <2>4. QED  BY <1>b, <2>2, <2>3
<1>7. QED  BY <1>1, <1>2, <1>3, <1>4, <1>5, <1>6 DEF IInv

\* The commit goes on, fails with a retry, or had nothing to do.
LEMMA StagesStep ==
  ASSUME IInv, Stages
  PROVE  IInv'
<1>a. /\ pc = "committing" /\ pc \in Saved /\ entry \in Entry
      /\ index \in [Paths -> Contents] /\ file \in [Paths -> Contents]
      /\ target \in Paths /\ config.path \in Paths
  BY PathOfConfig DEF IInv, TypeInv, TypeOK, Stages, Saved
<1>b. /\ \/ Commits /\ ~config.git
         \/ /\ UNCHANGED <<pending, calm>> /\ config.git /\ pc' = "staged"
            /\ UNCHANGED <<kind, entry, told, slipped>>
         \/ Fails
      /\ UNCHANGED <<file, head, other, backups, config, meddled, prior, used>>
  BY DEF Stages, Goes
<1>c. retries' \in Seq(Entry) /\ Len(retries') <= MaxPending /\ calm' \in BOOLEAN
  BY <1>a, <1>b, FailsKeepsRetry, CommitsKeepsRetries DEF IInv, TypeInv, TypeOK, pending
<1>d. /\ target' \in Paths /\ target' = (IF kind = "retry" THEN config.path ELSE target)
      /\ raced' = (raced \/ target' # target)
      /\ target = config.path => target' = config.path
      /\ index' \in [Paths -> Contents] /\ tokens' = tokens
  <2>1. index' = index \/ index' = [index EXCEPT ![target'] = file[target']]
    BY DEF Stages
  <2>2. /\ target' = (IF kind = "retry" THEN config.path ELSE target)
        /\ raced' = (raced \/ target' # target) /\ tokens' = tokens
    BY DEF Stages, Faultless, Fault, Failures
  <2>3. target' \in Paths /\ file[target'] \in Contents
    BY <1>a, <2>2
  <2>4. QED  BY <1>a, <2>1, <2>2, <2>3
<1>1. TypeInv'
  <2>1. /\ pc' \in {"idle", "staged"} /\ kind' = kind /\ entry' = entry /\ slipped' = slipped
        /\ told' \in {"nothing", "unsaved", "disabled", "failed", "committed"}
        /\ previews' = previews
    BY <1>b DEF Commits, Fails, Answers, pending, IInv, TypeInv, TypeOK
  <2>2. raced' \in BOOLEAN
    BY <1>d DEF IInv, TypeInv, TypeOK
  <2>3. QED
    BY <1>a, <1>b, <1>c, <1>d, <2>1, <2>2 DEF IInv, TypeInv, TypeOK
<1>2. TokenInv'
   BY DEF IInv, TokenInv, Unsaved, Stages, Fails, Commits, Deletes, Goes, Answers,
     Faultless, Fault, Failures, pending
<1>3. RetryInv'
   <2>1. CASE UNCHANGED <<pending, calm>> /\ pc' = "staged" /\ UNCHANGED <<kind, entry,
     told>>
    BY <1>a, <2>1 DEF IInv, RetryInv, pending
  <2>2. QED  BY <1>a, <1>b, <2>1, FailsKeepsRetry, CommitsKeepsRetries
<1>4. FileInv'
  <2>1. /\ kind # "none" /\ told = "nothing"
        /\ ~meddled => target = config.path /\ file[target] = entry.proposed
        /\ ~raced => file[target] = entry.proposed
    BY <1>a DEF IInv, FileInv
  <2>2. /\ ~meddled => target' = config.path /\ file[target'] = entry.proposed
        /\ ~raced' => file[target'] = entry.proposed
    BY <1>d, <2>1
  <2>3. CASE Commits /\ ~config.git
    BY <1>b, <2>2, <2>3 DEF Commits, Answers, FileInv, Saved, Unsaved, AnswersAreTrue
  <2>4. CASE pc' = "staged" /\ UNCHANGED <<kind, entry, told, slipped>>
    BY <1>b, <2>1, <2>2, <2>4 DEF FileInv, Saved, Unsaved, AnswersAreTrue
  <2>5. CASE Fails
    BY <1>b, <2>2, <2>5 DEF Fails, Answers, FileInv, Saved, Unsaved, AnswersAreTrue
  <2>6. QED  BY <1>b, <2>3, <2>4, <2>5
<1>5. BackupInv'
   BY DEF IInv, BackupInv, LastIsRecoverable, Stages, Fails, Commits, Deletes, Goes,
     Answers, pending
<1>6. CalmInv'
  <2>1. CASE Commits /\ ~config.git
    BY <1>a, <1>b, <2>1, CommitsKeepsRetries DEF IInv, CalmInv, Commits, Answers
  <2>2. CASE UNCHANGED <<pending, calm>> /\ pc' = "staged" /\ UNCHANGED entry
    <3>1. UNCHANGED <<retries, calm>>
      BY <2>2 DEF pending
    <3>2. QED  BY <1>a, <1>b, <2>2, <3>1 DEF IInv, CalmInv
  <2>3. CASE Fails
    BY <1>a, <1>b, <2>3, FailsKeepsCalm
  <2>4. QED  BY <1>b, <2>1, <2>2, <2>3
<1>7. QED  BY <1>1, <1>2, <1>3, <1>4, <1>5, <1>6 DEF IInv

\* HEAD holds the file, or a retry is there.
LEMMA SavesHeadStep ==
  ASSUME IInv, SavesHead
  PROVE  IInv'
<1>a. /\ pc = "staged" /\ pc \in Saved /\ entry \in Entry /\ target \in Paths
      /\ file \in [Paths -> Contents] /\ head \in [Paths -> Contents]
      /\ index \in [Paths -> Contents]
  BY DEF IInv, TypeInv, TypeOK, SavesHead, Saved
<1>b. /\ \/ /\ Commits /\ head' = [head EXCEPT ![target] = file[target]]
            /\ index' = [index EXCEPT ![target] = file[target]]
         \/ Fails /\ UNCHANGED <<head, index>>
      /\ UNCHANGED <<file, other, backups, config, target, raced, meddled, prior, used>>
      /\ tokens' = tokens
  BY DEF SavesHead, Faultless, Fault, Failures
<1>c. retries' \in Seq(Entry) /\ Len(retries') <= MaxPending /\ calm' \in BOOLEAN
  BY <1>a, <1>b, FailsKeepsRetry, CommitsKeepsRetries DEF IInv, TypeInv, TypeOK
<1>d. /\ pc' = "idle" /\ kind' = kind /\ entry' = entry /\ slipped' = slipped
      /\ (told' = "failed" \/ (told' = "committed" /\ Commits)) /\ previews' = previews
  BY <1>b DEF Commits, Fails, Answers
<1>e. Commits => head'[target] = file[target]
  <2>1. \/ head' = [head EXCEPT ![target] = file[target]]
        \/ Fails
    BY <1>b
  <2>2. Fails => told' = "failed"
    BY DEF Fails, Answers
  <2>3. Commits => told' = "committed"
    BY DEF Commits, Answers
  <2>4. QED  BY <1>a, <2>1, <2>2, <2>3
<1>1. TypeInv'
  <2>1. head' \in [Paths -> Contents] /\ index' \in [Paths -> Contents]
    BY <1>a, <1>b
  <2>2. QED  BY <1>b, <1>c, <1>d, <2>1 DEF IInv, TypeInv, TypeOK
<1>2. TokenInv'
   BY DEF IInv, TokenInv, Unsaved, SavesHead, Fails, Commits, Deletes, Goes, Answers,
     Faultless, Fault, Failures
<1>3. RetryInv'
  BY <1>a, <1>b, FailsKeepsRetry, CommitsKeepsRetries
<1>4. FileInv'
  <2>1. ~meddled => file[target] = entry.proposed
    BY <1>a DEF IInv, FileInv
  <2>2. QED  BY <1>b, <1>d, <1>e, <2>1 DEF FileInv, Saved, Unsaved, AnswersAreTrue
<1>5. BackupInv'
   BY DEF IInv, BackupInv, LastIsRecoverable, SavesHead, Fails, Commits, Deletes, Goes,
     Answers
<1>6. CalmInv'
  <2>1. CASE Commits /\ head' = [head EXCEPT ![target] = file[target]]
    <3>1. SUFFICES ASSUME calm PROVE CalmInv'
      BY <2>1 DEF Commits, CalmInv
    <3>2. /\ ~meddled /\ target = config.path
          /\ config.git => \A q \in Paths \ {config.path} : file[q] = head[q]
      BY <1>a, <3>1 DEF IInv, CalmInv, FileInv
    <3>3. config.git => \A q \in Paths : head'[q] = file[q]
      BY <1>a, <2>1, <3>2
    <3>4. config.git => head' = file
      BY <1>a, <2>1, <3>3
    <3>5. QED  BY <1>b, <1>d, <3>2, <3>3, <3>4 DEF CalmInv
  <2>2. CASE Fails /\ head' = head
    BY <1>a, <1>b, <2>2, FailsKeepsCalm
  <2>3. QED  BY <1>b, <2>1, <2>2
<1>7. QED  BY <1>1, <1>2, <1>3, <1>4, <1>5, <1>6 DEF IInv

\* Only the calm is lost.
LEMMA UsesCheckoutStep ==
  ASSUME IInv, UsesCheckout
  PROVE  IInv'
<1>1. TypeInv'
  BY DEF IInv, TypeInv, TypeOK, UsesCheckout, Outsider, pending, request
<1>2. TokenInv'
  BY DEF IInv, TokenInv, Unsaved, UsesCheckout, Outsider, pending, request
<1>3. RetryInv'
  BY DEF IInv, RetryInv, UsesCheckout, Outsider, pending, request
<1>4. FileInv'
   BY DEF IInv, FileInv, AnswersAreTrue, Unsaved, Saved, UsesCheckout, Outsider,
     pending, request
<1>5. BackupInv'
  BY DEF IInv, BackupInv, LastIsRecoverable, UsesCheckout, Outsider, pending, request
<1>6. CalmInv'
  BY DEF IInv, CalmInv, Saved, UsesCheckout, Outsider, pending, request
<1>7. QED  BY <1>1, <1>2, <1>3, <1>4, <1>5, <1>6 DEF IInv

\* Other settings end the calm, and the request counts as meddled with.
LEMMA SavesOptionsStep ==
  ASSUME IInv, NEW c \in Configs, SavesOptions(c)
  PROVE  IInv'
<1>1. TypeInv'
  BY DEF IInv, TypeInv, TypeOK, SavesOptions, source, pending, request
<1>2. TokenInv'
  BY DEF IInv, TokenInv, Unsaved, SavesOptions, source, pending, request
<1>3. RetryInv'
  BY DEF IInv, RetryInv, SavesOptions, source, pending, request
<1>4. FileInv'
   BY DEF IInv, FileInv, AnswersAreTrue, Unsaved, Saved, SavesOptions, source, pending,
     request
<1>5. BackupInv'
  BY DEF IInv, BackupInv, LastIsRecoverable, SavesOptions, source, pending, request
<1>6. CalmInv'
  BY DEF IInv, CalmInv, Saved, SavesOptions, source, pending, request
<1>7. QED  BY <1>1, <1>2, <1>3, <1>4, <1>5, <1>6 DEF IInv

\* No token is left, and no request; at most a torn backup is added.
LEMMA CrashesStep ==
  ASSUME IInv, Crashes
  PROVE  IInv'
<1>a. /\ TypeInv /\ LastIsRecoverable /\ prior' = prior
      /\ Torn \in Contents \cup {Torn}
  BY DEF IInv, BackupInv, Crashes
<1>b. backups' \in [Paths -> Seq(Contents \cup {Torn})] /\ LastIsRecoverable'
  <2>1. CASE backups' = backups
    BY <1>a, <2>1 DEF LastIsRecoverable, TypeInv, TypeOK
  <2>2. CASE backups' = [backups EXCEPT ![target] = <<Torn>> \o @]
    BY <1>a, <2>2, PutFirst, StillRecoverable
  <2>3. QED  BY <2>1, <2>2 DEF Crashes
<1>1. TypeInv'
  <2>1. /\ previews' = <<>> /\ retries' = <<>> /\ other' \in BOOLEAN
        /\ pc' = "idle" /\ kind' = "none" /\ told' = "nothing" /\ calm' = FALSE
        /\ slipped' = FALSE
        /\ UNCHANGED <<file, head, index, config, target, raced, meddled, prior, used, tokens>>
    BY DEF IInv, TypeInv, TypeOK, Crashes
  <2>2. <<>> \in Seq(Entry) /\ Len(<<>>) <= MaxPending
    BY HostWritesAssumption
  <2>3. QED  BY <1>b, <2>1, <2>2 DEF IInv, TypeInv, TypeOK
<1>2. TokenInv'
  BY DEF IInv, TokenInv, Unsaved, Crashes
<1>3. RetryInv'
  BY DEF IInv, RetryInv, Crashes
<1>4. FileInv'
  BY DEF IInv, FileInv, AnswersAreTrue, Unsaved, Saved, Crashes
<1>5. BackupInv'
  BY <1>b DEF BackupInv, Crashes
<1>6. CalmInv'
  BY DEF IInv, CalmInv, Saved, Crashes
<1>7. QED  BY <1>1, <1>2, <1>3, <1>4, <1>5, <1>6 DEF IInv

\* No step, and no stuttering, breaks it.
LEMMA NextInv == IInv /\ [Next]_vars => IInv'
<1> SUFFICES ASSUME IInv, [Next]_vars PROVE IInv'
  OBVIOUS
<1>1. CASE UNCHANGED vars
  <2>1. TypeInv' /\ TokenInv' /\ RetryInv'
    BY <1>1 DEF IInv, TypeInv, TypeOK, TokenInv, RetryInv, vars, source, pending, request,
                bounds, history
  <2>2. FileInv' /\ BackupInv' /\ CalmInv'
    BY <1>1 DEF IInv, FileInv, AnswersAreTrue, BackupInv, LastIsRecoverable, CalmInv, vars,
                source, pending, request, bounds, history
  <2>3. QED  BY <2>1, <2>2 DEF IInv
<1>2. CASE \E c \in Contents : Preview(c) \/ \E p \in Paths : Writes(p, c)
  BY <1>2, PreviewStep, WritesStep
<1>3. CASE Expires \/ Apply \/ Retry
  BY <1>3, ExpiresStep, ApplyStep, RetryStep
<1>4. CASE Checks \/ BacksUp \/ Rechecks \/ Replaces \/ Retains
  BY <1>4, ChecksStep, BacksUpStep, RechecksStep, ReplacesStep, RetainsStep
<1>5. CASE Decides \/ Stages \/ SavesHead
  BY <1>5, DecidesStep, StagesStep, SavesHeadStep
<1>6. CASE UsesCheckout \/ Crashes
  BY <1>6, UsesCheckoutStep, CrashesStep
<1>7. CASE \E c \in Configs : SavesOptions(c)
  BY <1>7, SavesOptionsStep
<1>8. QED  BY <1>1, <1>2, <1>3, <1>4, <1>5, <1>6, <1>7 DEF Next

\* The inductive invariant holds (hostwrites.py and gitops.py, all steps).
THEOREM Invariant == Spec => []IInv
<1>1. Init => IInv
  BY InitInv
<1>2. IInv /\ [Next]_vars => IInv'
  BY NextInv
<1>3. QED  BY <1>1, <1>2, PTL DEF Spec

-----------------------------------------------------------------------------
(* The properties *)

\* The types, and the bound on pending tokens (_prune).
THEOREM Typing == Spec => []TypeOK
<1>1. IInv => TypeOK
  BY DEF IInv, TypeInv
<1>2. QED  BY <1>1, Invariant, PTL

\* What the service answers is so, if nobody meddled: a save that failed left
\* the file, and one that was made is in it, and in HEAD if that was said.
THEOREM Answers_True == Spec => []AnswersAreTrue
<1>1. IInv => AnswersAreTrue
  BY DEF IInv, FileInv
<1>2. QED  BY <1>1, Invariant, PTL

\* What the last save replaced is in a backup: the backup is made first, and
\* comes first, and at least one is kept.
THEOREM Recoverable == Spec => []LastIsRecoverable
<1>1. IInv => LastIsRecoverable
  BY DEF IInv, BackupInv
<1>2. QED  BY <1>1, Invariant, PTL

\* A save that HEAD does not hold has a retry token, as long as all is calm:
\* the clean check made HEAD equal to the file before it.
THEOREM Committable == Spec => []SavedIsCommittable
<1>1. IInv => SavedIsCommittable
  <2> SUFFICES ASSUME IInv, pc = "idle", calm, config.git, file # head
               PROVE  \E i \in DOMAIN retries :
                        retries[i].settings = config
                        /\ retries[i].revision = file[config.path]
    BY DEF SavedIsCommittable
  <2>1. \E i \in 1 .. Len(retries) :
          retries[i].settings = config /\ retries[i].revision = file[config.path]
    BY DEF IInv, CalmInv
  <2>2. DOMAIN retries = 1 .. Len(retries)
    BY DEF IInv, TypeInv, TypeOK
  <2>3. QED  BY <2>1, <2>2
<1>2. QED  BY <1>1, Invariant, PTL

\* The only step from "ready" that changes a file and goes on is os.replace; what
\* another program writes meanwhile leaves pc.
LEMMA ReviewedStep ==
  ASSUME IInv, [Next]_vars, pc = "ready", pc' # "ready", file' # file
  PROVE  /\ entry.token \notin used
         /\ file' = [file EXCEPT ![target] = entry.proposed]
         /\ raced \/ file[target] = entry.revision
<1>1. Replaces
  BY DEF Next, vars, request, source, Preview, Writes, Expires, Apply, Retry, Begins, Checks,
         BacksUp, Rechecks, Retains, Decides, Stages, SavesHead, UsesCheckout, Outsider,
         SavesOptions, Crashes
<1>2. entry.token \notin used
  BY DEF IInv, TokenInv, Unsaved
<1>3. file' = [file EXCEPT ![target] = entry.proposed]
  BY <1>1 DEF Replaces, Puts
<1>4. QED  BY <1>2, <1>3 DEF IInv, FileInv

\* A token changes its file once, from the content it was reviewed against unless
\* another program wrote after the last check, or the check read another file
\* (hostwrites.py:219).
THEOREM AppliedOnce == Spec => Reviewed
<1>1. IInv /\ [Next]_vars =>
        [pc = "ready" /\ pc' # "ready" /\ file' # file =>
           /\ entry.token \notin used
           /\ file' = [file EXCEPT ![target] = entry.proposed]
           /\ raced \/ file[target] = entry.revision]_vars
  BY ReviewedStep
<1>2. QED  BY <1>1, Invariant, PTL DEF Spec, Reviewed

\* The only steps from "staged" to "idle" are `git commit` and a death.
LEMMA HeadStep ==
  ASSUME IInv, [Next]_vars, pc = "staged", pc' = "idle", head' # head
  PROVE  raced \/ head' = [head EXCEPT ![target] = entry.proposed]
<1>1. SavesHead
  BY DEF Next, vars, request, source, Preview, Writes, Expires, Apply, Retry, Begins, Checks,
         BacksUp, Rechecks, Replaces, Retains, Decides, Stages, UsesCheckout, Outsider,
         SavesOptions, Crashes
<1>2. head' = [head EXCEPT ![target] = file[target]]
  BY <1>1 DEF SavesHead
<1>3. ~raced => file[target] = entry.proposed
  BY DEF IInv, FileInv
<1>4. QED  BY <1>2, <1>3

\* HEAD takes what was reviewed, but for what another program wrote after the
\* last check, or another file that the settings name by then (hostwrites.py:265).
THEOREM HeadReviewed == Spec => HeadIsReviewed
<1>1. IInv /\ [Next]_vars =>
        [pc = "staged" /\ pc' = "idle" /\ head' # head =>
           raced \/ head' = [head EXCEPT ![target] = entry.proposed]]_vars
  BY HeadStep
<1>2. QED  BY <1>1, Invariant, PTL DEF Spec, HeadIsReviewed
=============================================================================

---------------------------- MODULE LoginProofs ----------------------------
(***************************************************************************)
(* For any number of connections, passwords and keys, and whatever the MUD  *)
(* and the player do to their files meanwhile: Login's properties.          *)
(***************************************************************************)
EXTENDS Login, SequenceTheorems, TLAPS

-----------------------------------------------------------------------------
(* The inductive invariant.                                                *)

Place == {"idle", "load", "verify", "loadForKey", "readKeys", "answered", "in", "closed"}
Loaded == [err : Reason \union {"nil"}, hash : Hash \union {"none"}]

\* What has the shape the steps rely on.
AttemptType ==
  /\ file \in Files
  /\ keyFile \in KeyLines
  /\ pc \in [Session -> Place]
  /\ tried \in [Session -> Hash \union Key \union {NoCredential}]
  /\ loaded \in [Session -> Loaded]
  /\ answers \in [Session -> [Key -> {NotAsked, "yes", "no"}]]

\* An attempt with a password tries a password, one with a key a key.
TriedInv(s) ==
  /\ pc[s] \in {"load", "verify"} => tried[s] \in Hash
  /\ pc[s] \in {"loadForKey", "readKeys", "answered"} => tried[s] \in Key

\* The hash that Authenticate is about to look at was in force at a moment of
\* the attempt.
Found(s) == IF loaded[s].err = "nil" THEN loaded[s].hash ELSE "none"
FoundInv(s) == pc[s] = "verify" => Found(s) \in current[s]

\* Whoever goes on to read the keys has found the character.
ExistedInv(s) == pc[s] = "readKeys" => existed[s]

\* A yes, also one that ssh remembers, was given when the key was listed, and
\* a no when the key was not.
YesInv(s) == \A k \in Key : answers[s][k] = "yes" => k \in held[s]
NoInv(s) == \A k \in Key : answers[s][k] = "no" => k \notin steady[s]

\* A key logs in on a yes.
InInv(s) == pc[s] = "in" /\ tried[s] \in Key => answers[s][tried[s]] = "yes"

SessionInv(s) ==
  TriedInv(s) /\ FoundInv(s) /\ ExistedInv(s) /\ YesInv(s) /\ NoInv(s) /\ InInv(s)

\* The keys that work all the time are keys.
SteadyType == \A s \in Session : steady[s] \subseteq Key

IInv ==
  /\ AttemptType
  /\ SteadyType
  /\ \A s \in Session : SessionInv(s)

-----------------------------------------------------------------------------
(* What is read, and what a step does to the histories.                    *)

LEMMA LoadUserType ==
  ASSUME NEW fl \in Files
  PROVE  /\ LoadUser(fl) \in Loaded
         /\ LoadUser(fl).err = "nil" <=> fl.text = "whole"
         /\ fl.text = "whole" => LoadUser(fl).hash = fl.hash
<1>1. CASE fl = NoFile
  <2>1. fl.text = "missing"
    BY <1>1 DEF NoFile
  <2> QED
    BY <2>1 DEF Error, Reason, LoadUser, Loaded
<1>2. CASE fl \in [hash : Hash, text : Text]
  <2>1. fl.text \in Text /\ fl.hash \in Hash
    BY <1>2
  <2>2. CASE fl.text = "whole"
    BY <2>1, <2>2 DEF LoadUser, User, Loaded
  <2>3. CASE fl.text # "whole"
    BY <2>1, <2>3 DEF LoadUser, Error, Reason, Text, Loaded
  <2> QED
    BY <2>2, <2>3
<1> QED
  BY <1>1, <1>2 DEF Files

LEMMA KeyLinesType ==
  ASSUME NEW lines \in KeyLines
  PROVE  /\ Len(lines) \in 0 .. MaxKeyLines + 1
         /\ lines \in [1 .. Len(lines) -> Key \union {Junk}]
<1>1. PICK n \in 0 .. MaxKeyLines + 1 : lines \in [1 .. n -> Key \union {Junk}]
  BY DEF KeyLines
<1>2. n \in Nat
  BY LoginAssumption
<1>3. lines \in Seq(Key \union {Junk}) /\ Len(lines) = n
  BY <1>1, <1>2
<1> QED
  BY <1>1, <1>3

LEMMA HistoriesGrow ==
  ASSUME Observe, NEW s \in Session
  PROVE  /\ existed[s] => existed'[s]
         /\ file' # NoFile => existed'[s]
         /\ held[s] \subseteq held'[s]
         /\ existed'[s] => Listed' \subseteq held'[s]
         /\ steady'[s] \subseteq steady[s]
         /\ steady'[s] \subseteq KeysInForce'
         /\ pc'[s] \in {"load", "verify"} =>
              current[s] \subseteq current'[s] /\ HashInForce' \in current'[s]
BY DEF Observe

LEMMA SteadyKept ==
  ASSUME SteadyType, Observe
  PROVE  SteadyType'
BY HistoriesGrow DEF SteadyType

\* A connection that does nothing keeps what is true of it.
LEMMA Bystander ==
  ASSUME NEW s \in Session, SessionInv(s), Observe,
         pc'[s] = pc[s], tried'[s] = tried[s], loaded'[s] = loaded[s], answers'[s] = answers[s]
  PROVE  SessionInv(s)'
<1>1. TriedInv(s)' /\ InInv(s)'
  BY DEF SessionInv, TriedInv, InInv
<1>2. FoundInv(s)'
  BY HistoriesGrow DEF SessionInv, FoundInv, Found
<1>3. ExistedInv(s)'
  BY HistoriesGrow DEF SessionInv, ExistedInv
<1>4. YesInv(s)'
  BY HistoriesGrow DEF SessionInv, YesInv
<1>5. NoInv(s)'
  BY HistoriesGrow DEF SessionInv, NoInv
<1> QED
  BY <1>1, <1>2, <1>3, <1>4, <1>5 DEF SessionInv

\* What a step of one connection leaves alone.
OthersIdle(s) ==
  \A t \in Session \ {s} : /\ pc'[t] = pc[t] /\ tried'[t] = tried[t]
                          /\ loaded'[t] = loaded[t] /\ answers'[t] = answers[t]

LEMMA OneConnection ==
  ASSUME IInv, Observe, NEW s \in Session, OthersIdle(s), AttemptType', SessionInv(s)'
  PROVE  IInv'
<1>1. ASSUME NEW t \in Session PROVE SessionInv(t)'
  <2>1. CASE t = s
    BY <2>1
  <2>2. CASE t # s
    BY <2>2, Bystander DEF IInv, OthersIdle
  <2> QED
    BY <2>1, <2>2
<1> QED
  BY <1>1, SteadyKept DEF IInv

\* A step that leaves the answers alone may forget, but learns nothing.
LEMMA AnswersKept ==
  ASSUME NEW s \in Session, SessionInv(s), Observe, answers'[s] = answers[s]
  PROVE  YesInv(s)' /\ NoInv(s)'
BY HistoriesGrow DEF SessionInv, YesInv, NoInv

-----------------------------------------------------------------------------
(* The steps.                                                              *)

LEMMA InitialLogin == Init => IInv
<1> SUFFICES ASSUME Init PROVE IInv
  OBVIOUS
<1>1. Error("not loaded") \in Loaded
  BY DEF Error, Loaded, Reason
<1>2. AttemptType
  BY <1>1 DEF Init, AttemptType, Place
<1>3. ASSUME NEW s \in Session PROVE SessionInv(s)
  BY <1>2 DEF Init, SessionInv, TriedInv, FoundInv, ExistedInv, YesInv, NoInv, InInv, NotAsked
<1>4. SteadyType
  <2>1. /\ DOMAIN keyFile = 1 .. Len(keyFile)
        /\ \A n \in DOMAIN keyFile : keyFile[n] \in Key \union {Junk}
    BY <1>2, KeyLinesType DEF AttemptType
  <2>2. Listed \subseteq Key
    BY <2>1 DEF Listed
  <2> QED
    BY <2>2 DEF Init, SteadyType, KeysInForce
<1> QED
  BY <1>2, <1>3, <1>4 DEF IInv

LEMMA TryPasswordKeeps ==
  ASSUME IInv, NEW s \in Session, NEW h \in Hash, TryPassword(s, h)
  PROVE  IInv'
<1>1. /\ Observe /\ pc[s] = "idle"
      /\ pc' = [pc EXCEPT ![s] = "load"] /\ tried' = [tried EXCEPT ![s] = h]
      /\ file' = file /\ keyFile' = keyFile /\ loaded' = loaded /\ answers' = answers
  BY DEF TryPassword, disk
<1>2. AttemptType /\ SessionInv(s)
  BY DEF IInv
<1>3. AttemptType' /\ OthersIdle(s) /\ pc'[s] = "load" /\ tried'[s] = h
  BY <1>1, <1>2 DEF AttemptType, Place, OthersIdle
<1>4. SessionInv(s)'
  BY <1>1, <1>2, <1>3, AnswersKept DEF SessionInv, TriedInv, FoundInv, ExistedInv, InInv
<1> QED
  BY <1>1, <1>3, <1>4, OneConnection

LEMMA LoadForPasswordKeeps ==
  ASSUME IInv, NEW s \in Session, LoadForPassword(s)
  PROVE  IInv'
<1>1. /\ Observe /\ pc[s] = "load"
      /\ pc' = [pc EXCEPT ![s] = "verify"] /\ loaded' = [loaded EXCEPT ![s] = LoadUser(file)]
      /\ file' = file /\ keyFile' = keyFile /\ tried' = tried /\ answers' = answers
  BY DEF LoadForPassword, disk
<1>2. AttemptType /\ SessionInv(s) /\ file \in Files
  BY DEF IInv, AttemptType
<1>3. LoadUser(file) \in Loaded
  BY <1>2, LoadUserType
<1>4. AttemptType' /\ OthersIdle(s) /\ pc'[s] = "verify" /\ loaded'[s] = LoadUser(file)
  BY <1>1, <1>2, <1>3 DEF AttemptType, Place, OthersIdle
<1>5. FoundInv(s)'
  <2>1. Found(s)' = HashInForce'
    BY <1>1, <1>2, <1>4, LoadUserType DEF Found, HashInForce
  <2> QED
    BY <1>1, <1>4, <2>1, HistoriesGrow DEF FoundInv
<1>6. SessionInv(s)'
  BY <1>1, <1>2, <1>4, <1>5, AnswersKept DEF SessionInv, TriedInv, ExistedInv, InInv
<1> QED
  BY <1>1, <1>4, <1>6, OneConnection

LEMMA VerifyPasswordKeeps ==
  ASSUME IInv, NEW s \in Session, VerifyPassword(s)
  PROVE  IInv'
<1>1. /\ Observe /\ pc[s] = "verify"
      /\ \E to \in {"in", "closed", "idle"} : pc' = [pc EXCEPT ![s] = to]
      /\ file' = file /\ keyFile' = keyFile /\ tried' = tried /\ loaded' = loaded /\ answers' = answers
  BY DEF VerifyPassword, Fail, disk
<1>2. AttemptType /\ SessionInv(s)
  BY DEF IInv
<1>3. AttemptType' /\ OthersIdle(s) /\ pc'[s] \in {"in", "closed", "idle"} /\ tried'[s] = tried[s]
  BY <1>1, <1>2 DEF AttemptType, Place, OthersIdle
<1>4. tried[s] \in Hash /\ tried[s] \notin Key
  BY <1>1, <1>2, LoginAssumption DEF SessionInv, TriedInv
<1>5. SessionInv(s)'
  BY <1>1, <1>2, <1>3, <1>4, AnswersKept DEF SessionInv, TriedInv, FoundInv, ExistedInv, InInv
<1> QED
  BY <1>1, <1>3, <1>5, OneConnection

LEMMA TryKeyKeeps ==
  ASSUME IInv, NEW s \in Session, NEW k \in Key, NEW sig \in BOOLEAN, TryKey(s, k, sig)
  PROVE  IInv'
<1>1. /\ Observe /\ pc[s] = "idle"
      /\ \E to \in {"loadForKey", "answered"} : pc' = [pc EXCEPT ![s] = to]
      /\ tried' = [tried EXCEPT ![s] = k]
      /\ file' = file /\ keyFile' = keyFile /\ loaded' = loaded /\ answers' = answers
  BY DEF TryKey, disk
<1>2. AttemptType /\ SessionInv(s)
  BY DEF IInv
<1>3. AttemptType' /\ OthersIdle(s) /\ pc'[s] \in {"loadForKey", "answered"} /\ tried'[s] = k
  BY <1>1, <1>2 DEF AttemptType, Place, OthersIdle
<1>4. SessionInv(s)'
  BY <1>1, <1>2, <1>3, AnswersKept DEF SessionInv, TriedInv, FoundInv, ExistedInv, InInv
<1> QED
  BY <1>1, <1>3, <1>4, OneConnection

\* A no is said of a key that has not worked all the time, a yes of one listed.
LEMMA AnswerKeeps ==
  ASSUME NEW s \in Session, NEW yes \in BOOLEAN, SessionInv(s), AttemptType, Observe,
         Answer(s, yes), tried[s] \in Key, tried' = tried, file' = file, keyFile' = keyFile,
         loaded' \in [Session -> Loaded],
         \A t \in Session \ {s} : loaded'[t] = loaded[t],
         yes => tried[s] \in held'[s],
         ~yes => tried[s] \notin steady'[s]
  PROVE  AttemptType' /\ OthersIdle(s) /\ SessionInv(s)'
<1> DEFINE word == IF yes THEN "yes" ELSE "no"
<1>1. /\ answers' = [answers EXCEPT ![s][tried[s]] = word]
      /\ pc' = [pc EXCEPT ![s] = "answered"]
      /\ word \in {"yes", "no"}
  BY DEF Answer
<1>2. (word = "yes" <=> yes) /\ (word = "no" <=> ~yes)
  OBVIOUS
<1> HIDE DEF word
<1>3. AttemptType' /\ OthersIdle(s) /\ pc'[s] = "answered"
  BY <1>1 DEF AttemptType, Place, OthersIdle
<1>4. \A k \in Key : answers'[s][k] = IF k = tried[s] THEN word ELSE answers[s][k]
  BY <1>1 DEF AttemptType
<1>5. YesInv(s)'
  BY <1>2, <1>4, HistoriesGrow DEF SessionInv, YesInv
<1>6. NoInv(s)'
  BY <1>2, <1>4, HistoriesGrow DEF SessionInv, NoInv
<1>7. TriedInv(s)' /\ FoundInv(s)' /\ ExistedInv(s)' /\ InInv(s)'
  BY <1>3 DEF TriedInv, FoundInv, ExistedInv, InInv
<1> QED
  BY <1>3, <1>5, <1>6, <1>7 DEF SessionInv

LEMMA LoadForKeyKeeps ==
  ASSUME IInv, NEW s \in Session, LoadForKey(s)
  PROVE  IInv'
<1>1. /\ Observe /\ pc[s] = "loadForKey"
      /\ loaded' = [loaded EXCEPT ![s] = LoadUser(file)]
      /\ file' = file /\ keyFile' = keyFile /\ tried' = tried
      /\ IF loaded'[s].err = "nil"
         THEN pc' = [pc EXCEPT ![s] = "readKeys"] /\ answers' = answers
         ELSE Answer(s, FALSE)
  BY DEF LoadForKey, disk
<1>2. AttemptType /\ SessionInv(s) /\ file \in Files
  BY DEF IInv, AttemptType
<1>3. /\ LoadUser(file) \in Loaded
      /\ LoadUser(file).err = "nil" <=> file.text = "whole"
  BY <1>2, LoadUserType
<1>4. /\ loaded' \in [Session -> Loaded] /\ loaded'[s] = LoadUser(file)
      /\ \A t \in Session \ {s} : loaded'[t] = loaded[t]
  BY <1>1, <1>2, <1>3 DEF AttemptType
<1>5. tried[s] \in Key
  BY <1>1, <1>2 DEF SessionInv, TriedInv
<1>6. CASE file.text = "whole"
  <2>1. pc' = [pc EXCEPT ![s] = "readKeys"] /\ answers' = answers
    BY <1>1, <1>3, <1>4, <1>6
  <2>2. AttemptType' /\ OthersIdle(s) /\ pc'[s] = "readKeys"
    BY <1>1, <1>2, <1>4, <2>1 DEF AttemptType, Place, OthersIdle
  <2>3. existed'[s]
    BY <1>1, <1>6, HistoriesGrow DEF NoFile
  <2>4. SessionInv(s)'
    BY <1>1, <1>2, <1>5, <2>1, <2>2, <2>3, AnswersKept
       DEF SessionInv, TriedInv, FoundInv, ExistedInv, InInv
  <2> QED
    BY <1>1, <2>2, <2>4, OneConnection
<1>7. CASE file.text # "whole"
  <2>1. Answer(s, FALSE)
    BY <1>1, <1>3, <1>4, <1>7
  <2>2. steady'[s] = {}
    BY <1>1, <1>7, HistoriesGrow DEF KeysInForce
  <2>3. AttemptType' /\ OthersIdle(s) /\ SessionInv(s)'
    BY <1>1, <1>2, <1>4, <1>5, <2>1, <2>2, AnswerKeeps
  <2> QED
    BY <1>1, <2>3, OneConnection
<1> QED
  BY <1>6, <1>7

LEMMA ReadKeysKeeps ==
  ASSUME IInv, NEW s \in Session, ReadKeys(s)
  PROVE  IInv'
<1> DEFINE yes == tried[s] \in Authorized(keyFile)
<1>1. /\ Observe /\ pc[s] = "readKeys" /\ Answer(s, yes)
      /\ file' = file /\ keyFile' = keyFile /\ tried' = tried /\ loaded' = loaded
  BY DEF ReadKeys, disk
<1>2. AttemptType /\ SessionInv(s)
  BY DEF IInv
<1>3. tried[s] \in Key /\ existed[s]
  BY <1>1, <1>2 DEF SessionInv, TriedInv, ExistedInv
<1>4. yes => tried[s] \in held'[s]
  <2>1. Authorized(keyFile) \subseteq Listed'
    BY <1>1 DEF Authorized, Listed
  <2> QED
    BY <1>1, <1>3, <2>1, HistoriesGrow
<1>5. ~yes => tried[s] \notin steady'[s]
  <2>1. KeysInForce \subseteq Authorized(keyFile)
    BY <1>2, KeyLinesType, LoginAssumption DEF Authorized, KeysInForce, Listed, AttemptType
  <2>2. KeysInForce' = KeysInForce
    BY <1>1 DEF KeysInForce, Listed
  <2> QED
    BY <1>1, <2>1, <2>2, HistoriesGrow
<1>6. loaded' \in [Session -> Loaded] /\ \A t \in Session \ {s} : loaded'[t] = loaded[t]
  BY <1>1, <1>2 DEF AttemptType
<1>7. yes \in BOOLEAN
  OBVIOUS
<1> HIDE DEF yes
<1>8. AttemptType' /\ OthersIdle(s) /\ SessionInv(s)'
  BY <1>1, <1>2, <1>3, <1>4, <1>5, <1>6, <1>7, AnswerKeeps
<1> QED
  BY <1>1, <1>8, OneConnection

LEMMA ConcludeKeeps ==
  ASSUME IInv, NEW s \in Session, Conclude(s)
  PROVE  IInv'
<1>1. /\ Observe /\ pc[s] = "answered"
      /\ \E to \in {"in", "closed", "idle"} :
           /\ pc' = [pc EXCEPT ![s] = to]
           /\ to = "in" => answers[s][tried[s]] = "yes"
      /\ file' = file /\ keyFile' = keyFile /\ tried' = tried /\ loaded' = loaded /\ answers' = answers
  BY DEF Conclude, Fail, disk
<1>2. AttemptType /\ SessionInv(s)
  BY DEF IInv
<1>3. /\ AttemptType' /\ OthersIdle(s) /\ pc'[s] \in {"in", "closed", "idle"}
      /\ pc'[s] = "in" => answers[s][tried[s]] = "yes"
  BY <1>1, <1>2 DEF AttemptType, Place, OthersIdle
<1>4. SessionInv(s)'
  BY <1>1, <1>2, <1>3, AnswersKept DEF SessionInv, TriedInv, FoundInv, ExistedInv, InInv
<1> QED
  BY <1>1, <1>3, <1>4, OneConnection

LEMMA DiskStepKeeps ==
  ASSUME IInv, DiskStep
  PROVE  IInv'
<1>1. Observe /\ UNCHANGED attempt /\ file' \in Files /\ keyFile' \in KeyLines
  <2>1. file \in Files /\ keyFile \in KeyLines
    BY DEF IInv, AttemptType
  <2>2. ASSUME NEW fl \in Files, WriteFile(fl)
        PROVE  Observe /\ UNCHANGED attempt /\ file' \in Files /\ keyFile' \in KeyLines
    BY <2>1, <2>2 DEF WriteFile
  <2>3. ASSUME NEW lines \in KeyLines, WriteKeys(lines)
        PROVE  Observe /\ UNCHANGED attempt /\ file' \in Files /\ keyFile' \in KeyLines
    BY <2>1, <2>3 DEF WriteKeys
  <2>4. CASE \E h \in Hash : Save(h)
    <3>1. PICK h \in Hash, text \in {"empty", "whole"} : WriteFile([hash |-> h, text |-> text])
      BY <2>4 DEF Save
    <3>2. [hash |-> h, text |-> text] \in Files
      BY DEF Files, Text
    <3> QED
      BY <2>2, <3>1, <3>2
  <2>5. CASE SaveOn \/ DiskFails \/ DiskWorks
    <3>1. PICK text \in Text : file.text \in Text /\ WriteFile([file EXCEPT !.text = text])
      BY <2>5 DEF SaveOn, DiskFails, DiskWorks, Text
    <3>2. [file EXCEPT !.text = text] \in Files
      BY <2>1, <3>1 DEF Files, NoFile, Text
    <3> QED
      BY <2>2, <3>1, <3>2
  <2>6. CASE Delete
    BY <2>2, <2>6 DEF Delete, Files
  <2> DEFINE Line == Key \union {Junk}
             N == Len(keyFile)
  <2>7. N \in 0 .. MaxKeyLines + 1 /\ keyFile \in [1 .. N -> Line] /\ MaxKeyLines \in Nat
    BY <2>1, KeyLinesType, LoginAssumption
  <2>8. CASE ClearKeys
    <3>1. <<>> \in [1 .. 0 -> Line]
      OBVIOUS
    <3>2. <<>> \in KeyLines
      BY <2>7, <3>1 DEF KeyLines
    <3> QED
      BY <2>3, <2>8, <3>2 DEF ClearKeys
  <2>9. CASE BeginLine
    <3>1. N <= MaxKeyLines /\ WriteKeys(Append(keyFile, Junk))
      BY <2>9 DEF BeginLine
    <3>2. Append(keyFile, Junk) \in [1 .. N + 1 -> Line]
      <4>1. keyFile \in Seq(Line) /\ Junk \in Line
        BY <2>7
      <4>2. Append(keyFile, Junk) \in Seq(Line) /\ Len(Append(keyFile, Junk)) = N + 1
        BY <4>1
      <4> HIDE DEF N, Line
      <4> QED
        BY <4>2, LenProperties
    <3>3. Append(keyFile, Junk) \in KeyLines
      BY <2>7, <3>1, <3>2 DEF KeyLines
    <3> QED
      BY <2>3, <3>1, <3>3
  <2>10. CASE \E k \in Key : EndLine(k)
    <3>1. PICK k \in Key : WriteKeys([keyFile EXCEPT ![N] = k])
      BY <2>10 DEF EndLine
    <3>2. [keyFile EXCEPT ![N] = k] \in [1 .. N -> Line]
      BY <2>7
    <3>3. [keyFile EXCEPT ![N] = k] \in KeyLines
      BY <2>7, <3>2 DEF KeyLines
    <3> QED
      BY <2>3, <3>1, <3>3
  <2> QED
    BY <2>4, <2>5, <2>6, <2>8, <2>9, <2>10 DEF DiskStep
<1>2. pc' = pc /\ tried' = tried /\ loaded' = loaded /\ answers' = answers
  BY <1>1 DEF attempt
<1>3. AttemptType'
  BY <1>1, <1>2 DEF IInv, AttemptType
<1>4. \A s \in Session : SessionInv(s)'
  BY <1>1, <1>2, Bystander DEF IInv
<1> QED
  BY <1>1, <1>3, <1>4, SteadyKept DEF IInv

LEMMA StutterKeeps ==
  ASSUME IInv, UNCHANGED vars
  PROVE  IInv'
<1>1. /\ file' = file /\ keyFile' = keyFile /\ pc' = pc /\ tried' = tried /\ loaded' = loaded /\ answers' = answers
      /\ existed' = existed /\ held' = held /\ steady' = steady /\ current' = current
  BY DEF vars, disk, attempt, history
<1> QED
  BY <1>1 DEF IInv, AttemptType, SteadyType, SessionInv, TriedInv, FoundInv, Found, ExistedInv,
              YesInv, NoInv, InInv

LEMMA LoginStep == IInv /\ [Next]_vars => IInv'
<1>1. ASSUME IInv, NEW s \in Session, SessionStep(s) PROVE IInv'
  BY <1>1, TryPasswordKeeps, LoadForPasswordKeeps, VerifyPasswordKeeps, TryKeyKeeps,
     LoadForKeyKeeps, ReadKeysKeeps, ConcludeKeeps DEF SessionStep
<1> QED
  BY <1>1, DiskStepKeeps, StutterKeeps DEF Next

LEMMA LoginInvariant == Spec => []IInv
BY InitialLogin, LoginStep, PTL DEF Spec

-----------------------------------------------------------------------------
(* What is shown of it.                                                    *)

\* "Keys only work while the character exists" (README.md:91): however the MUD
\* deletes and makes the character while publicKeyCallback loads it and reads
\* its keys (cmd/vkftpd/main.go, authentication/authorizedkeys.go), a key that
\* logs in was listed at or after a time when there was a character.
THEOREM KeysFollow == Spec => []KeysFollowTheCharacter
<1>1. IInv => KeysFollowTheCharacter
  BY DEF IInv, SessionInv, InInv, YesInv, KeysFollowTheCharacter
<1> QED
  BY <1>1, LoginInvariant, PTL

\* No other line of .authorized_keys, bad or half written, takes a key away
\* (sftpserver/authorizedkeys.go, parseAuthorizedKeys): one that has worked
\* ever since the client connected is not refused.
THEOREM GoodKeysAccepted == Spec => []GoodKeysAreAccepted
<1>1. IInv => GoodKeysAreAccepted
  BY DEF IInv, SteadyType, SessionInv, NoInv, GoodKeysAreAccepted
<1> QED
  BY <1>1, LoginInvariant, PTL

\* Authenticate (authentication/authenticator.go) reads the character once: a
\* password logs in only if it was the character's at a moment of the attempt,
\* and fails only if at a moment of the attempt it was not.
THEOREM PasswordsJudged == Spec => PasswordsJudgedByOneMoment
<1> DEFINE Judged ==
      \A s \in Session : pc[s] = "verify" /\ pc'[s] # "verify" =>
        IF pc'[s] = "in" THEN tried[s] \in current[s] ELSE current[s] # {tried[s]}
<1>1. ASSUME IInv, [Next]_vars PROVE Judged
  <2> SUFFICES ASSUME NEW s \in Session, pc[s] = "verify", pc'[s] # "verify"
               PROVE  IF pc'[s] = "in" THEN tried[s] \in current[s] ELSE current[s] # {tried[s]}
    OBVIOUS
  <2>1. AttemptType /\ SessionInv(s)
    BY <1>1 DEF IInv
  <2>2. tried[s] \in Hash /\ tried[s] # "none" /\ Found(s) \in current[s]
    BY <2>1, LoginAssumption DEF SessionInv, TriedInv, FoundInv
  <2>3. VerifyPassword(s)
    <3>1. ASSUME DiskStep \/ UNCHANGED vars PROVE pc' = pc
      <4>1. DiskStep => UNCHANGED attempt
        BY DEF DiskStep, Save, SaveOn, Delete, DiskFails, DiskWorks, ClearKeys, BeginLine,
               EndLine, WriteFile, WriteKeys
      <4> QED
        BY <3>1, <4>1 DEF vars, attempt
    <3>2. ASSUME NEW t \in Session, t # s, SessionStep(t) PROVE pc'[s] = pc[s]
      BY <2>1, <3>2 DEF AttemptType, SessionStep, TryPassword, LoadForPassword, VerifyPassword,
         TryKey, LoadForKey, ReadKeys, Conclude, Answer, Fail
    <3>3. SessionStep(s)
      BY <1>1, <3>1, <3>2 DEF Next
    <3> QED
      BY <3>3 DEF SessionStep, TryPassword, LoadForPassword, TryKey, LoadForKey, ReadKeys, Conclude
  <2>4. CASE loaded[s].err = "nil" /\ loaded[s].hash = tried[s]
    <3>1. pc'[s] = "in"
      BY <2>1, <2>3, <2>4 DEF VerifyPassword, AttemptType
    <3> QED
      BY <2>2, <2>4, <3>1 DEF Found
  <2>5. CASE ~(loaded[s].err = "nil" /\ loaded[s].hash = tried[s])
    <3>1. pc'[s] # "in"
      BY <2>1, <2>3, <2>5 DEF VerifyPassword, Fail, AttemptType
    <3>2. Found(s) # tried[s]
      BY <2>2, <2>5 DEF Found
    <3> QED
      BY <2>2, <3>1, <3>2
  <2> QED
    BY <2>4, <2>5
<1>2. Spec => [][Judged]_vars
  BY <1>1, LoginInvariant, PTL DEF Spec
<1> QED
  BY <1>2, PTL DEF PasswordsJudgedByOneMoment
=============================================================================

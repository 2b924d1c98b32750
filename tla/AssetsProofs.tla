---------------------------- MODULE AssetsProofs ----------------------------
(***************************************************************************)
(* What Assets.tla says of the loader's jobs, proved for any files, any    *)
(* number of jobs, any programs they are started with and any number of    *)
(* refused calls and deaths.                                               *)
(***************************************************************************)
EXTENDS Assets, FiniteSetTheorems, TLAPS

FirstCalls == {"put", "search", "remove", "post"}

JobRecords ==
  [action : Actions \cup {"none"}, loader : Nat, file : Files \cup {NoFile},
   todo : SUBSET Files, at : Calls \cup {"idle", "done", "dead"},
   found : SUBSET (Files \X Nat), adds : SUBSET Shared, agent : Shared \cup {NoFile},
   held : [Gear -> Nat]]

(* The agents a file is to be added to, a shared agent's own its own.      *)
Asked(f) == IF f \in Shared THEN {f} ELSE AddTo[f]

(* A job makes the calls its loader and its file are there for.            *)
CallIsInPlace(J) ==
  /\ J.at \in {"put", "search", "remove"} => main(J.action)[J.loader].first = J.at
  /\ J.at = "delete" => main(J.action)[J.loader].first = "search"
  /\ J.at = "post" => main(J.action)[J.loader].first # "put"
  /\ J.at = "list" => main(J.action)[J.loader] = load_agent_tools
  /\ J.at \in {"open", "start"} => Dir[J.file] = "ml"
  /\ J.at \in {"run", "launch"} => Dir[J.file] = "workflows"
  /\ J.at \in {"get", "set"} => Dir[J.file] \in {"tools", "skills"} \/ J.file \in Shared

(* A job that makes calls is in a loader of its action, at a file of it    *)
(* once the workflows are listed; a shared agent is fetched and stored     *)
(* only, a copy is held between the two, of an agent that is asked for and *)
(* no more to be added to, and what a search has found and is deleted has  *)
(* the file's name.                                                        *)
JobIsGood(J) ==
  /\ J \in JobRecords
  /\ J.at \in Calls => /\ J.action \in Actions /\ J.loader \in 1 .. Len(main(J.action))
                       /\ J.todo \subseteq FilesOf(J.action, J.loader)
  /\ J.at \in Calls \ {"list"} => /\ J.file \in FilesOf(J.action, J.loader) \ J.todo
                                  /\ J.adds \subseteq Asked(J.file)
  /\ J.at \in Calls /\ J.file \in Shared => J.at \in {"get", "set"}
  /\ (J.at = "set") <=> (J.agent # NoFile)
  /\ J.at = "set" => J.agent \in Asked(J.file) \ J.adds
  /\ J.at = "delete" => J.found # {} /\ \A o \in J.found : o[1] \in Same(J.file)
  /\ CallIsInPlace(J)

(* All jobs, and the ranges of the variables that the properties speak of. *)
Typed ==
  /\ store \in [Files -> SUBSET Nat]
  /\ lists \in [Agents -> [Gear -> Nat]]
  /\ job \in [Jobs -> JobRecords] /\ \A j \in Jobs : JobIsGood(job[j])
  /\ faults \in Nat /\ safe \subseteq Shared
  /\ ever \subseteq {Key(f) : f \in Files}

(* A job that is about to store an agent took the foreign entry with it.   *)
HeldIsGiven ==
  \A j \in Jobs : job[j].agent \in safe => job[j].held[Foreign] > 0

(* The names that were loaded and are missing, the jobs that are between   *)
(* deleting and making.                                                    *)
Missing == {k \in ever : \A f \in Files : Key(f) = k => store[f] = {}}
Between == {j \in Jobs : job[j].at \in {"delete", "post"}}

(* Every missing name is some job's that is about to make it, or was given *)
(* up with a fault of its own.                                             *)
Accounted(G) ==
  /\ IsFiniteSet(G) /\ Cardinality(G) <= faults
  /\ \A k \in Missing : k \in G \/ \E j \in Between : Key(job[j].file) = k

MissingAreAccounted == \E G \in SUBSET {Key(f) : f \in Files} : Accounted(G)

(* The inductive invariant. *)
IInv == Typed /\ HeldIsGiven /\ ForeignEntriesSurvive /\ MissingAreAccounted

-----------------------------------------------------------------------------
(* The loaders.                                                            *)

(* All of them. *)
Loaders ==
  {load_ilm, load_workflows, load_connectors, load_ai_indexes, load_agent_tools,
   load_skills, load_agents, load_synthetics, load_aliases, load_dataviews, load_ml,
   enable_rules, load_rules, load_objects, load_dashboards, load_slos, load_streams,
   load_esql_views, load_field_definitions, load_esql_data_sources, load_esql_data_sets,
   load_new_knowledge}

(* main: a full load consists of these. *)
LEMMA FullLoad == Load \in Seq(Loaders)
  BY SMTT(30) DEF Load, Loaders

(* So does every other action. *)
LEMMA SingleLoads == \A a \in DOMAIN Single : Single[a] \in Seq(Loaders)
<1>1. DOMAIN Single =
        {"load_workflows", "load_alerts", "load_knowledge", "load_synthetics", "load_agents",
         "load_tools", "load_aliases", "load_ai_indexes", "load_ml", "load_skills",
         "load_slos", "load_objects", "load_dashboards", "load_streams", "load_ilm",
         "load_esql"}
  BY DEF Single
<1>2. /\ Single["load_workflows"] = <<load_workflows>>
      /\ Single["load_alerts"] = <<enable_rules, load_rules>>
      /\ Single["load_knowledge"] = <<load_new_knowledge>>
      /\ Single["load_synthetics"] = <<load_synthetics>>
      /\ Single["load_agents"] = <<load_agents>>
      /\ Single["load_tools"] = <<load_agent_tools>>
      /\ Single["load_aliases"] = <<load_aliases, load_dataviews>>
      /\ Single["load_ai_indexes"] = <<load_ai_indexes>>
      /\ Single["load_ml"] = <<load_ml>>
      /\ Single["load_skills"] = <<load_skills>>
      /\ Single["load_slos"] = <<load_slos>>
      /\ Single["load_objects"] = <<load_objects>>
      /\ Single["load_dashboards"] = <<load_dashboards>>
      /\ Single["load_streams"] = <<load_streams>>
      /\ Single["load_ilm"] = <<load_ilm>>
      /\ Single["load_esql"] =
           <<load_esql_views, load_esql_data_sources, load_esql_data_sets>>
  BY DEF Single
<1>3. /\ \A x \in Loaders : <<x>> \in Seq(Loaders)
      /\ \A x, y \in Loaders : <<x, y>> \in Seq(Loaders)
      /\ \A x, y, z \in Loaders : <<x, y, z>> \in Seq(Loaders)
  OBVIOUS
<1>4. /\ load_workflows \in Loaders /\ enable_rules \in Loaders /\ load_rules \in Loaders
      /\ load_new_knowledge \in Loaders /\ load_synthetics \in Loaders
      /\ load_agents \in Loaders /\ load_agent_tools \in Loaders /\ load_aliases \in Loaders
      /\ load_dataviews \in Loaders /\ load_ai_indexes \in Loaders /\ load_ml \in Loaders
      /\ load_skills \in Loaders /\ load_slos \in Loaders /\ load_objects \in Loaders
      /\ load_dashboards \in Loaders /\ load_streams \in Loaders /\ load_ilm \in Loaders
      /\ load_esql_views \in Loaders /\ load_esql_data_sources \in Loaders
      /\ load_esql_data_sets \in Loaders
  BY DEF Loaders
<1>5. \A a \in {"load_alerts", "load_aliases", "load_esql"} : Single[a] \in Seq(Loaders)
  BY <1>2, <1>3, <1>4, ZenonT(60)
<1>6. \A a \in {"load_workflows", "load_knowledge", "load_synthetics", "load_agents",
                "load_tools", "load_ai_indexes", "load_ml"} : Single[a] \in Seq(Loaders)
  BY <1>2, <1>3, <1>4, ZenonT(60)
<1>7. \A a \in {"load_skills", "load_slos", "load_objects", "load_dashboards",
                "load_streams", "load_ilm"} : Single[a] \in Seq(Loaders)
  BY <1>2, <1>3, <1>4, ZenonT(60)
<1> QED BY <1>1, <1>5, <1>6, <1>7

(* main: every loader of an action begins with one of four calls. *)
LEMMA FirstIsACall ==
  ASSUME NEW action \in Actions, NEW k \in 1 .. Len(main(action))
  PROVE  main(action)[k].first \in FirstCalls
<1>1. \A l \in Loaders : l.first \in FirstCalls
  BY DEF Loaders, Loader, FirstCalls, load_ilm, load_workflows, load_connectors, load_ai_indexes,
     load_agent_tools, load_skills, load_agents, load_synthetics, load_aliases,
     load_dataviews, load_ml, enable_rules, load_rules, load_objects, load_dashboards,
     load_slos, load_streams, load_esql_views, load_field_definitions,
     load_esql_data_sources, load_esql_data_sets, load_new_knowledge
<1>2. Load \in Seq(Loaders)
  BY FullLoad
<1>3. \A a \in DOMAIN Single : Single[a] \in Seq(Loaders)
  BY SingleLoads
<1>4. main(action) \in Seq(Loaders)
  BY <1>2, <1>3 DEF main, Actions
<1> QED BY <1>1, <1>4

LEMMA NamesAreApart ==
  /\ Foreign \notin Files /\ NoFile \notin Files /\ Shared \subseteq Agents
  /\ NoFile \notin Agents /\ NoFile \notin Shared /\ Foreign \in Gear
  /\ Kind(Foreign) = "skills" /\ NoGear \in [Gear -> Nat]
  BY AssetsAssumption DEF Agents, Gear, Kind, NoGear

(* K is job J at its next file f. *)
IsAt(K, J, todo, f) ==
  /\ K = [J EXCEPT !.file = f, !.todo = todo \ {f}, !.at = K.at, !.adds = Asked(f)]
  /\ K.at = IF f \in Shared THEN "get" ELSE main(J.action)[J.loader].first
  /\ K.file = f /\ K.todo = todo \ {f} /\ K.adds = Asked(f)
  /\ K.action = J.action /\ K.loader = J.loader
  /\ K.found = J.found /\ K.agent = J.agent /\ K.held = J.held

(* A job takes a file of its directory. *)
LEMMA TakeIs ==
  ASSUME NEW J \in JobRecords, NEW todo, NEW K \in Take(J, todo)
  PROVE  \E f \in todo : IsAt(K, J, todo, f)
<1>1. PICK f \in todo :
        K = [J EXCEPT !.file = f, !.todo = todo \ {f},
                      !.at = IF f \in Shared THEN "get" ELSE main(J.action)[J.loader].first,
                      !.adds = Asked(f)]
  BY DEF Take, Asked
<1> DEFINE at == IF f \in Shared THEN "get" ELSE main(J.action)[J.loader].first
<1>2. K = [J EXCEPT !.file = f, !.todo = todo \ {f}, !.at = at, !.adds = Asked(f)]
  BY <1>1
<1> HIDE DEF at
<1>3. /\ K.at = at /\ K.file = f /\ K.todo = todo \ {f} /\ K.adds = Asked(f)
      /\ K.action = J.action /\ K.loader = J.loader
      /\ K.found = J.found /\ K.agent = J.agent /\ K.held = J.held
  BY <1>2 DEF JobRecords
<1> QED BY <1>2, <1>3 DEF at, IsAt

LEMMA TakeIsGood ==
  ASSUME NEW J \in JobRecords, J.action \in Actions, J.loader \in 1 .. Len(main(J.action)),
         J.agent = NoFile, NEW todo \in SUBSET FilesOf(J.action, J.loader),
         NEW K \in Take(J, todo)
  PROVE  JobIsGood(K) /\ K.agent = NoFile
<1>0. PICK f \in todo : IsAt(K, J, todo, f)
  BY TakeIs
<1>1. /\ K = [J EXCEPT !.file = f, !.todo = todo \ {f}, !.at = K.at, !.adds = Asked(f)]
      /\ K.at = IF f \in Shared THEN "get" ELSE main(J.action)[J.loader].first
      /\ K.file = f /\ K.todo = todo \ {f} /\ K.adds = Asked(f)
      /\ K.action = J.action /\ K.loader = J.loader /\ K.agent = J.agent
  BY <1>0, Zenon DEF IsAt
<1>2. main(J.action)[J.loader].first \in FirstCalls
  BY FirstIsACall
<1>3. f \in Files /\ f # NoFile /\ Asked(f) \in SUBSET Shared /\ todo \in SUBSET Files
  BY NamesAreApart, AssetsAssumption DEF FilesOf, Asked
<1>4. /\ K.at \in {"get"} \cup FirstCalls /\ (f \in Shared <=> K.at = "get")
      /\ K.at \in Calls \ {"list", "set", "delete"}
  BY <1>1, <1>2 DEF FirstCalls, Calls
<1>5. K \in JobRecords
  <2> PICK at, left, adds : at = K.at /\ left = todo \ {f} /\ adds = Asked(f)
    OBVIOUS
  <2>1. K = [J EXCEPT !.file = f, !.todo = left, !.at = at, !.adds = adds]
    BY <1>1
  <2>2. at \in Calls /\ left \in SUBSET Files /\ adds \in SUBSET Shared /\ f \in Files
    BY <1>3, <1>4
  <2> QED BY <2>1, <2>2 DEF JobRecords
<1>6. CallIsInPlace(K)
  BY <1>1, <1>4 DEF CallIsInPlace, FirstCalls
<1> QED BY <1>1, <1>3, <1>4, <1>5, <1>6 DEF JobIsGood

(* The next directory with files, or the end. *)
LEMMA EnterIs ==
  ASSUME NEW J \in JobRecords, NEW K \in Enter(J)
  PROVE  LET left == {k \in J.loader + 1 .. Len(main(J.action)) : FilesOf(J.action, k) # {}}
         IN  \/ left = {} /\ K = End(J, "done")
             \/ \E k \in left :
                  /\ \A l \in left : k <= l
                  /\ \/ /\ main(J.action)[k] = load_agent_tools
                        /\ K = [J EXCEPT !.loader = k, !.todo = FilesOf(J.action, k),
                                         !.at = "list"]
                     \/ /\ main(J.action)[k] # load_agent_tools
                        /\ K \in Take([J EXCEPT !.loader = k], FilesOf(J.action, k))
<1> DEFINE left  == {k \in J.loader + 1 .. Len(main(J.action)) : FilesOf(J.action, k) # {}}
           In(k) == [J EXCEPT !.loader = k]
           Entered(k) ==
             IF main(J.action)[k] = load_agent_tools
             THEN {[In(k) EXCEPT !.todo = FilesOf(J.action, k), !.at = "list"]}
             ELSE Take(In(k), FilesOf(J.action, k))
<1>1. \/ left = {} /\ K = End(J, "done")
      \/ K \in UNION {Entered(k) : k \in {n \in left : \A l \in left : n <= l}}
  BY DEF Enter
<1>2. \/ left = {} /\ K = End(J, "done")
      \/ \E k \in left : (\A l \in left : k <= l) /\ K \in Entered(k)
  <2> HIDE DEF left, Entered
  <2> QED BY <1>1
<1>3. \A k : [In(k) EXCEPT !.todo = FilesOf(J.action, k), !.at = "list"]
              = [J EXCEPT !.loader = k, !.todo = FilesOf(J.action, k), !.at = "list"]
  BY DEF JobRecords
<1> QED BY <1>2, <1>3

LEMMA EnterIsGood ==
  ASSUME NEW J \in JobRecords, J.action \in Actions, J.agent = NoFile, J.file = NoFile,
         NEW K \in Enter(J)
  PROVE  JobIsGood(K) /\ K.agent = NoFile
<1> DEFINE left  == {k \in J.loader + 1 .. Len(main(J.action)) : FilesOf(J.action, k) # {}}
<1>1. CASE K = End(J, "done")
  BY <1>1, NamesAreApart DEF End, Idle, JobIsGood, JobRecords, Calls, CallIsInPlace
<1>2. ASSUME NEW k \in left, K \in Take([J EXCEPT !.loader = k], FilesOf(J.action, k))
      PROVE  JobIsGood(K) /\ K.agent = NoFile
  <2> DEFINE L == [J EXCEPT !.loader = k]
  <2>1. /\ L \in JobRecords /\ L.action = J.action /\ L.loader = k
        /\ L.agent = NoFile /\ k \in 1 .. Len(main(J.action))
    BY DEF JobRecords
  <2> HIDE DEF L
  <2>2. K \in Take(L, FilesOf(L.action, L.loader))
    BY <1>2, <2>1 DEF L
  <2> QED BY <2>1, <2>2, TakeIsGood
<1>3. ASSUME NEW k \in left, main(J.action)[k] = load_agent_tools,
             K = [J EXCEPT !.loader = k, !.todo = FilesOf(J.action, k), !.at = "list"]
      PROVE  JobIsGood(K) /\ K.agent = NoFile
  <2> DEFINE files == FilesOf(J.action, k)
  <2>1. files \in SUBSET Files /\ k \in 1 .. Len(main(J.action)) /\ k \in Nat
    BY DEF FilesOf, JobRecords
  <2>2. K = [J EXCEPT !.loader = k, !.todo = files, !.at = "list"]
    BY <1>3
  <2>3. /\ K \in JobRecords /\ K.action = J.action /\ K.loader = k /\ K.file = NoFile
        /\ K.agent = NoFile /\ K.at = "list" /\ K.todo = files
    <3> HIDE DEF files
    <3> QED BY <2>1, <2>2 DEF JobRecords, Calls
  <2> QED BY <1>3, <2>1, <2>3, NamesAreApart DEF JobIsGood, CallIsInPlace
<1> HIDE DEF left
<1> QED BY <1>1, <1>2, <1>3, EnterIs DEF left

(* What follows a file. *)
LEMMA OnwardIsGood ==
  ASSUME NEW J, JobIsGood(J), J.at \in Calls, NEW K \in Onward(J)
  PROVE  JobIsGood(K) /\ K.agent = NoFile
<1> DEFINE found == IF Dir[J.file] = "tools" /\ J.todo # {} THEN J.found ELSE {}
           L     == [J EXCEPT !.agent = NoFile, !.held = NoGear, !.found = found]
<1>1. found \in SUBSET (Files \X Nat)
  BY DEF JobIsGood, JobRecords
<1>2. K \in IF J.todo # {} THEN Take(L, J.todo) ELSE Enter([L EXCEPT !.file = NoFile])
  BY DEF Onward
<1> HIDE DEF found
<1>3. /\ L \in JobRecords /\ L.action = J.action /\ L.loader = J.loader /\ L.agent = NoFile
      /\ [L EXCEPT !.file = NoFile] \in JobRecords
      /\ [L EXCEPT !.file = NoFile].action = J.action
      /\ [L EXCEPT !.file = NoFile].file = NoFile
      /\ [L EXCEPT !.file = NoFile].agent = NoFile
  BY <1>1, NamesAreApart DEF JobIsGood, JobRecords
<1>4. /\ J.action \in Actions /\ J.loader \in 1 .. Len(main(J.action))
      /\ J.todo \in SUBSET FilesOf(J.action, J.loader)
  BY DEF JobIsGood
<1> HIDE DEF L
<1> QED BY <1>2, <1>3, <1>4, TakeIsGood, EnterIsGood

-----------------------------------------------------------------------------
(* A job's step.                                                           *)

(* Job j goes on to a good state, the others stand; a copy it holds after  *)
(* the step is one it held, or the agent's lists.                          *)
JobMoves(j) ==
  /\ \E K \in JobRecords : job' = [job EXCEPT ![j] = K]
  /\ JobIsGood(job'[j])
  /\ \/ job'[j].agent = NoFile
     \/ job'[j].agent \in Agents /\ job'[j].held = lists[job'[j].agent]
     \/ job'[j].agent = job[j].agent /\ job'[j].held = job[j].held

LEMMA ProceedMoves ==
  ASSUME Typed, NEW j \in Jobs, job[j].at \in Calls, Proceed(j)
  PROVE  JobMoves(j)
<1>1. PICK K \in Onward(job[j]) : job' = [job EXCEPT ![j] = K]
  BY DEF Proceed
<1>2. JobIsGood(K) /\ K.agent = NoFile
  BY OnwardIsGood DEF Typed
<1> QED BY <1>1, <1>2 DEF JobMoves, JobIsGood, Typed

(* On to another call for the same file, if it is one for it. *)
LEMMA GotoMoves ==
  ASSUME Typed, NEW j \in Jobs, job[j].at \in Calls \ {"list", "set"},
         NEW at, Goto(j, at), job[j].file \notin Shared,
         \/ at = "post" /\ main(job[j].action)[job[j].loader].first # "put"
         \/ at \in {"open", "start"} /\ Dir[job[j].file] = "ml"
         \/ at = "run" /\ Dir[job[j].file] = "workflows"
         \/ at = "get" /\ Dir[job[j].file] \in {"tools", "skills"}
  PROVE  JobMoves(j) /\ job'[j].at = at /\ job'[j].file = job[j].file
<1> DEFINE J == job[j]
           K == [J EXCEPT !.at = at]
<1>1. JobIsGood(J) /\ at \in {"post", "open", "start", "run", "get"}
  BY DEF Typed
<1>2. /\ K \in JobRecords /\ K.at = at /\ K.file = J.file /\ K.agent = J.agent
      /\ K.action = J.action /\ K.loader = J.loader /\ K.todo = J.todo /\ K.adds = J.adds
  BY <1>1 DEF JobIsGood, JobRecords, Calls
<1>3. JobIsGood(K) /\ K.agent = NoFile
  <2> HIDE DEF K
  <2>1. CallIsInPlace(K)
    BY <1>1, <1>2 DEF CallIsInPlace
  <2> QED BY <1>1, <1>2, <2>1 DEF JobIsGood, Calls
<1>4. job' = [job EXCEPT ![j] = K] /\ job'[j] = K
  BY DEF Goto, Typed
<1> HIDE DEF K
<1> QED BY <1>2, <1>3, <1>4 DEF JobMoves

(* The ranges, and what is kept with a copy, survive such a step if the    *)
(* rest of the server stays in range.                                      *)
LEMMA MoveKeeps ==
  ASSUME Typed, HeldIsGiven, ForeignEntriesSurvive, NEW j \in Jobs, JobMoves(j),
         store' \in [Files -> SUBSET Nat], lists' \in [Agents -> [Gear -> Nat]],
         faults' \in {faults, faults + 1}, UNCHANGED safe,
         ever' \subseteq ever \cup {Key(f) : f \in Files}
  PROVE  Typed' /\ HeldIsGiven'
<1>1. /\ job' \in [Jobs -> JobRecords]
      /\ \A i \in Jobs : i # j => job'[i] = job[i]
      /\ JobIsGood(job'[j])
  BY DEF JobMoves, Typed
<1>2. Typed'
  BY <1>1 DEF Typed
<1>3. HeldIsGiven'
  <2>1. NoFile \notin safe
    BY NamesAreApart DEF Typed
  <2>2. job'[j].agent \in safe => job'[j].held[Foreign] > 0
    BY <2>1 DEF JobMoves, HeldIsGiven, ForeignEntriesSurvive
  <2> QED BY <1>1, <2>2 DEF HeldIsGiven
<1> QED BY <1>2, <1>3

(* The lists a job stores are lists, and keep what was held. *)
LEMMA NewListsKeep ==
  ASSUME Typed, HeldIsGiven, ForeignEntriesSurvive, NEW j \in Jobs, job[j].at = "set"
  PROVE  /\ NewLists(job[j]) \in [Gear -> Nat]
         /\ job[j].agent \in safe => NewLists(job[j])[Foreign] > 0
<1> DEFINE J == job[j]
<1>1. /\ J.held \in [Gear -> Nat] /\ J.agent \in Agents /\ J.file \in Files
      /\ J.file # Foreign /\ lists[J.agent] \in [Gear -> Nat]
  BY NamesAreApart DEF Typed, JobIsGood, JobRecords, Calls, FilesOf
<1> HIDE DEF J
<1>2. NewLists(J) \in [Gear -> Nat]
  <2>1. \A g \in Gear : NewLists(J)[g] \in Nat
    BY <1>1 DEF NewLists
  <2> QED BY <2>1 DEF NewLists
<1>3. J.held[Foreign] > 0 /\ lists[J.agent][Foreign] > 0 => NewLists(J)[Foreign] > 0
  BY <1>1, NamesAreApart DEF NewLists
<1> QED BY <1>2, <1>3 DEF J, HeldIsGiven, ForeignEntriesSurvive

-----------------------------------------------------------------------------
(* The missing names.                                                      *)

(* A step of job j, and of no other, that lets no name go missing but the  *)
(* one it is about to make, and does not turn from a name it was to make   *)
(* unless that is there, or with a fault.                                  *)
LEMMA AccountsAreKept ==
  ASSUME Typed, MissingAreAccounted, NEW j \in Jobs,
         \A i \in Jobs : i # j => job'[i] = job[i],
         \A k \in Missing' : k \in Missing \/ (j \in Between' /\ k = Key(job'[j].file)),
         faults' \in {faults, faults + 1},
         j \in Between =>
           \/ faults' = faults + 1
           \/ Key(job[j].file) \notin Missing'
           \/ j \in Between' /\ Key(job'[j].file) = Key(job[j].file),
         job[j].at \in Calls \ {"list"} => job[j].file \in Files
  PROVE  MissingAreAccounted'
<1>1. PICK G \in SUBSET {Key(f) : f \in Files} : Accounted(G)
  BY DEF MissingAreAccounted
<1>2. /\ IsFiniteSet(G) /\ Cardinality(G) \in Nat /\ Cardinality(G) <= faults
      /\ faults \in Nat
  BY <1>1, FS_CardinalityType DEF Accounted, Typed
<1>3. \A i \in Jobs : i # j => (i \in Between' <=> i \in Between) /\ job'[i].file = job[i].file
  BY DEF Between
<1>4. \A k \in Missing : k \in G \/ \E i \in Between : Key(job[i].file) = k
  BY <1>1 DEF Accounted
<1>5. CASE j \in Between /\ faults' = faults + 1
  <2> PICK name : name = Key(job[j].file)
    OBVIOUS
  <2> PICK H : H = G \cup {name}
    OBVIOUS
  <2>1. H \in SUBSET {Key(f) : f \in Files}
    BY <1>5 DEF Between, Calls
  <2>2. IsFiniteSet(H) /\ Cardinality(H) <= Cardinality(G) + 1
    <3>1. /\ IsFiniteSet(G \cup {name})
          /\ Cardinality(G \cup {name})
               = IF name \in G THEN Cardinality(G) ELSE Cardinality(G) + 1
      BY <1>2, FS_AddElement, ZenonT(30)
    <3> QED BY <1>2, <3>1
  <2>3. \A k \in Missing' : k \in H \/ \E i \in Between' : Key(job'[i].file) = k
    BY <1>3, <1>4 DEF Between
  <2>4. Accounted(H)'
    <3>1. Cardinality(H) \in Nat
      BY <2>2, FS_CardinalityType
    <3> QED BY <1>2, <1>5, <2>2, <2>3, <3>1 DEF Accounted
  <2> QED BY <2>1, <2>4 DEF MissingAreAccounted
<1>6. CASE ~(j \in Between /\ faults' = faults + 1)
  <2>1. \A k \in Missing' : k \in G \/ \E i \in Between' : Key(job'[i].file) = k
    BY <1>3, <1>4, <1>6 DEF Between
  <2>2. Accounted(G)'
    BY <1>2, <2>1 DEF Accounted
  <2> QED BY <2>2 DEF MissingAreAccounted
<1> QED BY <1>5, <1>6

(* Nothing goes missing as long as each file's objects are not all taken   *)
(* away, and what was newly loaded is there.                               *)
LEMMA NoneGoesMissing ==
  ASSUME Typed, NEW f \in Files,
         \A g \in Files : g # f /\ store[g] # {} => store'[g] # {},
         \A k \in ever' \ ever : \E g \in Files : Key(g) = k /\ store'[g] # {}
  PROVE  /\ \A k \in Missing' : k \in Missing \/ k = Key(f)
         /\ store'[f] # {} => Key(f) \notin Missing' /\ \A k \in Missing' : k \in Missing
  BY DEF Missing

(* What StoreIs adds to the names is on the server. *)
LEMMA StoredIsThere ==
  ASSUME Typed, NEW s, StoreIs(s)
  PROVE  /\ store' = s /\ ever' \subseteq ever \cup {Key(f) : f \in Files}
         /\ \A k \in ever' \ ever : \E g \in Files : Key(g) = k /\ store'[g] # {}
  BY DEF StoreIs

-----------------------------------------------------------------------------
(* The calls.                                                              *)

(* What a job under way knows of itself. *)
LEMMA UnderWay ==
  ASSUME Typed, NEW j \in Jobs, job[j].at \in Calls
  PROVE  /\ JobIsGood(job[j]) /\ job[j] \in JobRecords
         /\ job[j].at # "list" => job[j].file \in Files
         /\ job[j].at \notin {"get", "set"} => job[j].file \notin Shared
  BY DEF Typed, JobIsGood, FilesOf

(* A refused call is a fault, another is none. *)
LEMMA CallCounts ==
  ASSUME Typed, NEW j \in Jobs, NEW at, NEW ok \in BOOLEAN, Call(j, at, ok)
  PROVE  /\ job[j].at = at /\ faults' \in {faults, faults + 1}
         /\ ~ok => faults' = faults + 1
  BY DEF Call

(* A step that touches neither objects nor names loses none. *)
LEMMA ServerStands ==
  ASSUME IInv, NEW j \in Jobs, JobMoves(j), job[j].at \notin {"delete", "post"},
         UNCHANGED <<store, ever, safe>>, faults' \in {faults, faults + 1},
         lists' \in [Agents -> [Gear -> Nat]],
         \A a \in safe : lists'[a][Foreign] > 0
  PROVE  IInv'
<1>1. Typed' /\ HeldIsGiven'
  BY MoveKeeps DEF IInv, Typed
<1>2. \A i \in Jobs : i # j => job'[i] = job[i]
  BY DEF JobMoves, IInv, Typed
<1>3. job[j].at \in Calls \ {"list"} => job[j].file \in Files
  BY UnderWay DEF IInv
<1>4. Missing' = Missing /\ j \notin Between
  BY DEF Missing, Between
<1>5. MissingAreAccounted'
  BY <1>2, <1>3, <1>4, AccountsAreKept DEF IInv
<1> QED BY <1>1, <1>5 DEF IInv, ForeignEntriesSurvive

(* The same, for a step that leaves the lists alone too. *)
LEMMA ListsStand ==
  ASSUME IInv, NEW j \in Jobs, JobMoves(j), job[j].at \notin {"delete", "post"},
         UNCHANGED <<store, lists, ever, safe>>, faults' \in {faults, faults + 1}
  PROVE  IInv'
  BY ServerStands DEF IInv, Typed, ForeignEntriesSurvive

LEMMA StartStep ==
  ASSUME IInv, NEW j \in Jobs, NEW action \in Programs, Start(j, action)
  PROVE  IInv'
<1> DEFINE J == [Idle EXCEPT !.action = action]
<1>1. PICK K \in Enter(J) : job' = [job EXCEPT ![j] = K]
  BY DEF Start
<1>2. /\ J \in JobRecords /\ J.action = action /\ J.agent = NoFile /\ J.file = NoFile
      /\ action \in Actions
  BY ProgramsAssumption, NamesAreApart DEF Idle, JobRecords
<1> HIDE DEF J
<1>3. JobIsGood(K) /\ K.agent = NoFile
  BY <1>2, EnterIsGood
<1>4. JobMoves(j)
  BY <1>1, <1>3 DEF JobMoves, JobIsGood, IInv, Typed
<1>5. job[j].at = "idle"
  BY DEF Start, Idle
<1> QED BY <1>4, <1>5, ListsStand DEF Start, server

LEMMA DieStep ==
  ASSUME IInv, NEW j \in Jobs, Die(j) PROVE IInv'
<1> DEFINE K == End(job[j], "dead")
<1>1. job[j] \in JobRecords /\ job[j].at \in Calls
  BY DEF IInv, Typed, Die, Running
<1>2. K \in JobRecords /\ JobIsGood(K) /\ K.agent = NoFile /\ K.at = "dead"
  BY <1>1, NamesAreApart DEF End, Idle, JobIsGood, JobRecords, Calls,
     CallIsInPlace
<1>3. job' = [job EXCEPT ![j] = K]
  BY DEF Die
<1> HIDE DEF K
<1>4. JobMoves(j) /\ \A i \in Jobs : i # j => job'[i] = job[i]
  BY <1>2, <1>3 DEF JobMoves, IInv, Typed
<1>5. /\ UNCHANGED <<store, lists, ever, safe>> /\ faults' = faults + 1
      /\ Missing' = Missing
  BY DEF Die, server, Missing
<1>6. Typed' /\ HeldIsGiven'
  BY <1>4, <1>5, MoveKeeps DEF IInv, Typed
<1>7. MissingAreAccounted'
  BY <1>1, <1>4, <1>5, UnderWay, AccountsAreKept DEF IInv
<1> QED BY <1>5, <1>6, <1>7 DEF IInv, ForeignEntriesSurvive

LEMMA ListStep ==
  ASSUME IInv, NEW j \in Jobs, List(j) PROVE IInv'
<1>0. job[j].at = "list" /\ job[j].at \in Calls
  BY DEF List, Calls
<1>1. PICK page \in Pages("workflows") :
        \E J \in Take([job[j] EXCEPT !.found = page], job[j].todo) :
          job' = [job EXCEPT ![j] = J]
  BY DEF List
<1> DEFINE L == [job[j] EXCEPT !.found = page]
<1>2. page \in SUBSET (Files \X Nat)
  BY DEF Pages, Objects, IInv, Typed
<1>3. JobIsGood(job[j]) /\ job[j] \in JobRecords
  BY <1>0, UnderWay DEF IInv
<1>4. /\ L \in JobRecords /\ L.action = job[j].action /\ L.loader = job[j].loader
      /\ L.agent = job[j].agent
  BY <1>2, <1>3 DEF JobRecords
<1>5. L.action \in Actions /\ L.loader \in 1 .. Len(main(L.action)) /\ L.agent = NoFile
  BY <1>0, <1>3, <1>4 DEF JobIsGood
<1>6. job[j].todo \in SUBSET FilesOf(L.action, L.loader)
  BY <1>0, <1>3, <1>4 DEF JobIsGood
<1>7. PICK K \in Take(L, job[j].todo) : job' = [job EXCEPT ![j] = K]
  BY <1>1
<1> HIDE DEF L
<1>8. JobIsGood(K) /\ K.agent = NoFile
  BY <1>4, <1>5, <1>6, TakeIsGood
<1>9. JobMoves(j)
  BY <1>7, <1>8 DEF JobMoves, JobIsGood, IInv, Typed
<1> QED BY <1>0, <1>9, ListsStand DEF List, Searched, server

LEMMA SearchStep ==
  ASSUME IInv, NEW j \in Jobs, Search(j) PROVE IInv'
<1> DEFINE J == job[j]
<1>0. J.at = "search" /\ J.at \in Calls
  BY DEF Search, Calls
<1>1. PICK page \in Pages(Dir[J.file]) :
        job' = [job EXCEPT ![j].found = Found(j, page),
                           ![j].at = IF Found(j, page) = {} THEN "post" ELSE "delete"]
  BY DEF Search
<1> DEFINE found == Found(j, page)
           at    == IF found = {} THEN "post" ELSE "delete"
           K     == [J EXCEPT !.found = found, !.at = at]
<1>2. found \in SUBSET (Files \X Nat) /\ \A o \in found : o[1] \in Same(J.file)
  BY DEF Pages, Objects, Found, IInv, Typed
<1>3. JobIsGood(J) /\ J \in JobRecords /\ J.file \in Files /\ J.file \notin Shared
  BY <1>0, UnderWay DEF IInv
<1>4. job' = [job EXCEPT ![j] = K]
  BY <1>1 DEF IInv, Typed
<1>5. at \in {"post", "delete"}
  OBVIOUS
<1> HIDE DEF found, at
<1>6. /\ K \in JobRecords /\ K.at = at /\ K.found = found /\ K.file = J.file
      /\ K.action = J.action /\ K.loader = J.loader /\ K.agent = J.agent
      /\ K.todo = J.todo /\ K.adds = J.adds
  BY <1>2, <1>3, <1>5 DEF JobRecords, Calls
<1>7. JobIsGood(K) /\ K.agent = NoFile
  <2>1. at = "delete" => found # {}
    BY DEF at
  <2> HIDE DEF K
  <2>2. CallIsInPlace(K)
    BY <1>0, <1>3, <1>5, <1>6 DEF CallIsInPlace, JobIsGood
  <2> QED BY <1>0, <1>2, <1>3, <1>5, <1>6, <2>1, <2>2 DEF JobIsGood, Calls
<1> HIDE DEF K
<1>8. JobMoves(j)
  BY <1>4, <1>6, <1>7 DEF JobMoves, IInv, Typed
<1> QED BY <1>0, <1>8, ListsStand DEF Search, Searched, server

LEMMA GetStep ==
  ASSUME IInv, NEW j \in Jobs, Get(j) PROVE IInv'
<1> DEFINE J == job[j]
<1>0. J.at = "get" /\ J.at \in Calls
  BY DEF Get, Calls
<1>1. PICK a \in J.adds :
        job' = [job EXCEPT ![j].at = "set", ![j].agent = a, ![j].adds = @ \ {a},
                           ![j].held = lists[a]]
  BY DEF Get
<1> DEFINE held == lists[a]
           K == [J EXCEPT !.at = "set", !.agent = a, !.adds = J.adds \ {a}, !.held = held]
<1>2. JobIsGood(J) /\ J \in JobRecords /\ J.file \in Files
  BY <1>0, UnderWay DEF IInv
<1>3. a \in Shared /\ a \in Agents /\ a # NoFile /\ held \in [Gear -> Nat]
  BY <1>2, NamesAreApart DEF JobRecords, IInv, Typed
<1>4. job' = [job EXCEPT ![j] = K]
  BY <1>1 DEF IInv, Typed
<1> HIDE DEF held
<1>5. /\ K \in JobRecords /\ K.at = "set" /\ K.file = J.file /\ K.action = J.action
      /\ K.loader = J.loader /\ K.agent = a /\ K.held = held
      /\ K.todo = J.todo /\ K.adds = J.adds \ {a}
  BY <1>2, <1>3 DEF JobRecords, Calls
<1>6. JobIsGood(K)
  <2> HIDE DEF K
  <2>1. CallIsInPlace(K)
    BY <1>0, <1>2, <1>5 DEF CallIsInPlace, JobIsGood
  <2> QED BY <1>0, <1>2, <1>3, <1>5, <2>1 DEF JobIsGood, Calls
<1> HIDE DEF K
<1>7. JobMoves(j)
  BY <1>3, <1>4, <1>5, <1>6 DEF JobMoves, IInv, Typed, held
<1> QED BY <1>0, <1>7, ListsStand DEF Get, server, history

LEMMA OpenStep ==
  ASSUME IInv, NEW j \in Jobs, NEW ok \in BOOLEAN, Open(j, ok) PROVE IInv'
<1>1. /\ job[j].at = "open" /\ job[j].at \in Calls /\ faults' \in {faults, faults + 1}
      /\ Goto(j, "start") /\ UNCHANGED <<store, lists, ever, safe>>
  BY CallCounts DEF Open, Calls, IInv
<1>2. job[j].file \notin Shared /\ Dir[job[j].file] = "ml"
  BY <1>1, UnderWay DEF IInv, JobIsGood, CallIsInPlace
<1>3. JobMoves(j)
  BY <1>1, <1>2, GotoMoves DEF Calls, IInv
<1> QED BY <1>1, <1>3, ListsStand

LEMMA FeedStep ==
  ASSUME IInv, NEW j \in Jobs, NEW ok \in BOOLEAN, StartFeed(j, ok) PROVE IInv'
<1>1. /\ job[j].at = "start" /\ job[j].at \in Calls /\ faults' \in {faults, faults + 1}
      /\ Proceed(j) /\ UNCHANGED <<store, lists, ever, safe>>
  BY CallCounts DEF StartFeed, Calls, IInv
<1> QED BY <1>1, ProceedMoves, ListsStand DEF IInv

(* The workflow to run is looked for; if there is none, that is it. *)
LEMMA RunStep ==
  ASSUME IInv, NEW j \in Jobs, run_workflow(j) PROVE IInv'
<1> DEFINE J == job[j]
<1>0. J.at = "run" /\ J.at \in Calls /\ UNCHANGED <<faults, store, lists, ever, safe>>
  BY DEF run_workflow, Searched, server, Calls
<1>1. PICK page \in Pages("workflows") :
        IF Found(j, page) = {} THEN Proceed(j)
        ELSE \E o \in Found(j, page) :
               job' = [job EXCEPT ![j].found = {o}, ![j].at = "launch"]
  BY DEF run_workflow
<1>2. CASE Proceed(j)
  BY <1>0, <1>2, ProceedMoves, ListsStand DEF IInv
<1>3. ASSUME NEW o \in Found(j, page),
             job' = [job EXCEPT ![j].found = {o}, ![j].at = "launch"]
      PROVE  IInv'
  <2>1. PICK found : found = {o}
    OBVIOUS
  <2>2. found \in SUBSET (Files \X Nat)
    BY <2>1 DEF Pages, Objects, Found, IInv, Typed
  <2>3. JobIsGood(J) /\ J \in JobRecords /\ J.file \in Files /\ J.file \notin Shared
    BY <1>0, UnderWay DEF IInv
  <2> DEFINE K == [J EXCEPT !.found = found, !.at = "launch"]
  <2>4. job' = [job EXCEPT ![j] = K]
    BY <1>3, <2>1 DEF IInv, Typed
  <2>5. /\ K \in JobRecords /\ K.at = "launch" /\ K.found = found /\ K.file = J.file
        /\ K.action = J.action /\ K.loader = J.loader /\ K.agent = J.agent
        /\ K.todo = J.todo /\ K.adds = J.adds
    BY <2>2, <2>3 DEF JobRecords, Calls
  <2>6. JobIsGood(K) /\ K.agent = NoFile
    <3> HIDE DEF K
    <3>1. CallIsInPlace(K)
      BY <1>0, <2>3, <2>5 DEF CallIsInPlace, JobIsGood
    <3> QED BY <1>0, <2>3, <2>5, <3>1 DEF JobIsGood, Calls
  <2> HIDE DEF K
  <2>7. JobMoves(j)
    BY <2>4, <2>5, <2>6 DEF JobMoves, IInv, Typed
  <2> QED BY <1>0, <2>7, ListsStand
<1> QED BY <1>1, <1>2, <1>3

LEMMA LaunchStep ==
  ASSUME IInv, NEW j \in Jobs, NEW ok \in BOOLEAN, Launch(j, ok) PROVE IInv'
<1>1. /\ job[j].at = "launch" /\ job[j].at \in Calls /\ faults' \in {faults, faults + 1}
      /\ Proceed(j) /\ UNCHANGED <<store, lists, ever, safe>>
  BY CallCounts DEF Launch, Calls, IInv
<1> QED BY <1>1, ProceedMoves, ListsStand DEF IInv

(* Storing an agent keeps the entry that was fetched with it. *)
LEMMA SetStep ==
  ASSUME IInv, NEW j \in Jobs, NEW ok \in BOOLEAN, Set(j, ok) PROVE IInv'
<1> DEFINE J == job[j]
<1>1. /\ J.at = "set" /\ J.at \in Calls /\ faults' \in {faults, faults + 1}
      /\ UNCHANGED <<store, ever, safe>>
  BY CallCounts DEF Set, Calls, IInv
<1>2. JobIsGood(J) /\ J \in JobRecords /\ J.file \in Files
  BY <1>1, UnderWay DEF IInv
<1>3. JobMoves(j)
  <2>1. CASE J.adds # {}
    <3> DEFINE K == [J EXCEPT !.at = "get", !.agent = NoFile, !.held = NoGear]
    <3>1. job' = [job EXCEPT ![j] = K]
      BY <2>1 DEF Set, IInv, Typed
    <3>2. /\ K \in JobRecords /\ K.at = "get" /\ K.file = J.file /\ K.action = J.action
          /\ K.loader = J.loader /\ K.agent = NoFile /\ K.todo = J.todo /\ K.adds = J.adds
      BY <1>2, NamesAreApart DEF JobRecords, Calls
    <3>3. JobIsGood(K)
      <4> HIDE DEF K
      <4>1. CallIsInPlace(K)
        BY <1>1, <1>2, <3>2 DEF CallIsInPlace, JobIsGood
      <4> QED BY <1>1, <1>2, <3>2, <4>1 DEF JobIsGood, Calls
    <3> HIDE DEF K
    <3> QED BY <3>1, <3>2, <3>3 DEF JobMoves, IInv, Typed
  <2>2. CASE J.adds = {}
    BY <1>1, <2>2, ProceedMoves DEF Set, IInv
  <2> QED BY <2>1, <2>2
<1>4. /\ lists' \in [Agents -> [Gear -> Nat]]
      /\ \A a \in safe : lists'[a][Foreign] > 0
  <2>1. /\ NewLists(J) \in [Gear -> Nat]
        /\ J.agent \in safe => NewLists(J)[Foreign] > 0
    BY <1>1, NewListsKeep DEF IInv
  <2>2. lists' \in {lists, [lists EXCEPT ![J.agent] = NewLists(J)]}
    BY DEF Set
  <2>3. safe \subseteq Agents
    BY NamesAreApart DEF IInv, Typed
  <2> HIDE DEF J
  <2> QED BY <2>1, <2>2, <2>3 DEF IInv, Typed, ForeignEntriesSurvive
<1> QED BY <1>1, <1>3, <1>4, ServerStands

(* A put replaces what there is of the file. *)
LEMMA PutStep ==
  ASSUME IInv, NEW j \in Jobs, NEW ok \in BOOLEAN, Put(j, ok) PROVE IInv'
<1> DEFINE f == job[j].file
           s == IF ok THEN [store EXCEPT ![f] = {j}] ELSE store
<1>1. /\ job[j].at = "put" /\ job[j].at \in Calls /\ faults' \in {faults, faults + 1}
      /\ StoreIs(s) /\ Proceed(j) /\ UNCHANGED <<lists, safe>>
  BY CallCounts DEF Put, Calls, IInv
<1>2. f \in Files
  BY <1>1, UnderWay DEF IInv
<1>3. JobMoves(j) /\ \A i \in Jobs : i # j => job'[i] = job[i]
  BY <1>1, ProceedMoves DEF IInv, JobMoves, Typed
<1>4. /\ s \in [Files -> SUBSET Nat] /\ \A g \in Files : g # f => s[g] = store[g]
      /\ store[f] # {} => s[f] # {}
  BY <1>2 DEF IInv, Typed, Jobs
<1>5. /\ store' = s /\ ever' \subseteq ever \cup {Key(g) : g \in Files}
      /\ \A k \in ever' \ ever : \E g \in Files : Key(g) = k /\ store'[g] # {}
  BY <1>1, StoredIsThere DEF IInv
<1> HIDE DEF s
<1>6. Typed' /\ HeldIsGiven'
  BY <1>1, <1>3, <1>4, <1>5, MoveKeeps DEF IInv, Typed
<1>7. \A k \in Missing' : k \in Missing
  BY <1>4, <1>5 DEF Missing
<1>8. MissingAreAccounted'
  BY <1>1, <1>2, <1>3, <1>7, AccountsAreKept DEF IInv, Between
<1> QED BY <1>1, <1>6, <1>8 DEF IInv, ForeignEntriesSurvive

(* A found object is deleted: it has the name of the file to be posted. *)
LEMMA DeleteStep ==
  ASSUME IInv, NEW j \in Jobs, NEW ok \in BOOLEAN, Delete(j, ok) PROVE IInv'
<1> DEFINE J == job[j]
<1>1. /\ J.at = "delete" /\ J.at \in Calls /\ faults' \in {faults, faults + 1}
      /\ UNCHANGED <<lists, ever, safe>>
  BY CallCounts DEF Delete, Calls, IInv
<1>2. JobIsGood(J) /\ J \in JobRecords /\ J.file \in Files /\ J.file \notin Shared
  BY <1>1, UnderWay DEF IInv
<1>3. PICK o \in J.found :
        /\ store' = IF ok THEN [store EXCEPT ![o[1]] = @ \ {o[2]}] ELSE store
        /\ job' = [job EXCEPT ![j].found = @ \ {o},
                              ![j].at = IF J.found = {o} THEN "post" ELSE "delete"]
  BY DEF Delete
<1> DEFINE at    == IF J.found = {o} THEN "post" ELSE "delete"
           found == J.found \ {o}
           K     == [J EXCEPT !.found = found, !.at = at]
<1>4. o[1] \in Same(J.file) /\ o[1] \in Files /\ Key(o[1]) = Key(J.file)
  BY <1>1, <1>2 DEF JobIsGood, Same, Key
<1>5. job' = [job EXCEPT ![j] = K]
  BY <1>3 DEF IInv, Typed
<1>6. /\ at \in {"post", "delete"} /\ found \in SUBSET (Files \X Nat)
      /\ \A p \in found : p[1] \in Same(J.file)
  BY <1>1, <1>2 DEF JobIsGood, JobRecords
<1> HIDE DEF at, found
<1>7. /\ K \in JobRecords /\ K.at = at /\ K.found = found /\ K.file = J.file
      /\ K.action = J.action /\ K.loader = J.loader /\ K.agent = J.agent
      /\ K.todo = J.todo /\ K.adds = J.adds
  BY <1>2, <1>6 DEF JobRecords, Calls
<1>8. JobIsGood(K) /\ K.agent = NoFile
  <2>1. at = "delete" => found # {}
    BY <1>2, <1>3 DEF at, found
  <2> HIDE DEF K
  <2>2. CallIsInPlace(K)
    BY <1>1, <1>2, <1>6, <1>7 DEF CallIsInPlace, JobIsGood
  <2> QED BY <1>1, <1>2, <1>6, <1>7, <2>1, <2>2 DEF JobIsGood, Calls
<1> HIDE DEF K
<1>9. /\ JobMoves(j) /\ job'[j] = K /\ \A i \in Jobs : i # j => job'[i] = job[i]
      /\ j \in Between' /\ job'[j].file = J.file
  BY <1>5, <1>6, <1>7, <1>8 DEF JobMoves, IInv, Typed, Between
<1>10. /\ store' \in [Files -> SUBSET Nat]
       /\ \A g \in Files : g # o[1] => store'[g] = store[g]
  BY <1>3, <1>4 DEF IInv, Typed
<1>11. Typed' /\ HeldIsGiven'
  BY <1>1, <1>9, <1>10, MoveKeeps DEF IInv, Typed
<1>12. \A k \in Missing' : k \in Missing \/ k = Key(J.file)
  BY <1>1, <1>4, <1>10 DEF Missing
<1>13. MissingAreAccounted'
  <2> HIDE DEF J
  <2> QED BY <1>1, <1>2, <1>9, <1>12, AccountsAreKept DEF IInv, J
<1> QED BY <1>1, <1>11, <1>13 DEF IInv, ForeignEntriesSurvive

(* A tool, a skill or an agent that is not shared is removed by its id. *)
LEMMA RemoveStep ==
  ASSUME IInv, NEW j \in Jobs, NEW ok \in BOOLEAN, Remove(j, ok) PROVE IInv'
<1> DEFINE f == job[j].file
<1>1. /\ job[j].at = "remove" /\ job[j].at \in Calls /\ faults' \in {faults, faults + 1}
      /\ Goto(j, "post") /\ UNCHANGED <<ever, safe>>
  BY CallCounts DEF Remove, Calls, IInv
<1>2. /\ f \in Files /\ f \notin Shared
      /\ main(job[j].action)[job[j].loader].first = "remove"
  BY <1>1, UnderWay DEF IInv, JobIsGood, CallIsInPlace
<1>3. /\ JobMoves(j) /\ \A i \in Jobs : i # j => job'[i] = job[i]
      /\ job'[j].at = "post" /\ job'[j].file = f /\ j \in Between' /\ j \notin Between
  <2>1. JobMoves(j) /\ job'[j].at = "post" /\ job'[j].file = f
    BY <1>1, <1>2, GotoMoves DEF Calls, IInv
  <2> QED BY <1>1, <2>1 DEF JobMoves, IInv, Typed, Between
<1>4. /\ store' \in [Files -> SUBSET Nat] /\ \A g \in Files : g # f => store'[g] = store[g]
  BY <1>2 DEF Remove, IInv, Typed
<1>5. /\ lists' \in [Agents -> [Gear -> Nat]]
      /\ \A a \in safe : lists'[a][Foreign] > 0
  <2>1. f # Foreign /\ safe \subseteq Shared /\ Shared \subseteq Agents
        /\ lists \in [Agents -> [Gear -> Nat]] /\ \A a \in safe : lists[a][Foreign] > 0
    BY <1>2, NamesAreApart DEF IInv, Typed, ForeignEntriesSurvive
  <2>2. CASE lists' = [a \in Agents |-> [lists[a] EXCEPT ![f] = 0]]
    BY <2>1, <2>2, NamesAreApart
  <2>3. CASE lists' = [lists EXCEPT ![f] = NoGear]
    BY <1>2, <2>1, <2>3, NamesAreApart
  <2>4. CASE lists' = lists
    BY <2>1, <2>4
  <2>5. lists' \in {[a \in Agents |-> [lists[a] EXCEPT ![f] = 0]],
                    [lists EXCEPT ![f] = NoGear], lists}
    BY Zenon DEF Remove
  <2> QED BY <2>2, <2>3, <2>4, <2>5
<1>6. Typed' /\ HeldIsGiven'
  BY <1>1, <1>3, <1>4, <1>5, MoveKeeps DEF IInv, Typed
<1>7. \A k \in Missing' : k \in Missing \/ k = Key(f)
  BY <1>1, <1>2, <1>4 DEF Missing
<1>8. MissingAreAccounted'
  BY <1>1, <1>2, <1>3, <1>7, AccountsAreKept DEF IInv
<1> QED BY <1>1, <1>5, <1>6, <1>8 DEF IInv, ForeignEntriesSurvive

(* What follows the POST of a file. *)
LEMMA AfterPostMoves ==
  ASSUME Typed, NEW j \in Jobs, job[j].at = "post", AfterPost(j) PROVE JobMoves(j)
<1>1. job[j].at \in Calls \ {"list", "set"} /\ job[j].file \notin Shared
  BY UnderWay DEF Calls
<1>2. \/ Dir[job[j].file] = "ml" /\ Goto(j, "open")
      \/ Dir[job[j].file] = "workflows" /\ Goto(j, "run")
      \/ Dir[job[j].file] \in {"tools", "skills"} /\ Goto(j, "get")
      \/ Proceed(j)
  BY Zenon DEF AfterPost
<1> QED BY <1>1, <1>2, GotoMoves, ProceedMoves DEF Calls

(* The object is made, is there already, or the call has failed. *)
LEMMA PostStep ==
  ASSUME IInv, NEW j \in Jobs, NEW ok \in BOOLEAN, Post(j, ok) PROVE IInv'
<1> DEFINE f    == job[j].file
           made == ok /\ ~Taken(f)
           s    == IF made THEN [store EXCEPT ![f] = @ \cup {j}] ELSE store
<1>1. /\ job[j].at = "post" /\ job[j].at \in Calls /\ faults' \in {faults, faults + 1}
      /\ ~ok => faults' = faults + 1
      /\ StoreIs(s) /\ AfterPost(j) /\ UNCHANGED safe
  BY CallCounts DEF Post, Calls, IInv
<1>2. f \in Files /\ f \notin Shared
  BY <1>1, UnderWay DEF IInv
<1>3. JobMoves(j) /\ \A i \in Jobs : i # j => job'[i] = job[i]
  BY <1>1, AfterPostMoves DEF IInv, JobMoves, Typed
<1>4. /\ s \in [Files -> SUBSET Nat] /\ \A g \in Files : store[g] \subseteq s[g]
      /\ ok => s[f] # {}
  BY <1>2 DEF IInv, Typed, Jobs, Taken
<1>5. /\ store' = s /\ ever' \subseteq ever \cup {Key(g) : g \in Files}
      /\ \A k \in ever' \ ever : \E g \in Files : Key(g) = k /\ store'[g] # {}
  BY <1>1, StoredIsThere DEF IInv
<1> HIDE DEF s
<1>6. /\ lists' \in [Agents -> [Gear -> Nat]]
      /\ \A a \in safe : lists'[a][Foreign] > 0
  <2> DEFINE new == [g \in Gear |-> IF g \in Listed[f] THEN 1 ELSE 0]
  <2>1. lists' \in {lists, [lists EXCEPT ![f] = new]} /\ new \in [Gear -> Nat]
    BY DEF Post
  <2>2. /\ safe \subseteq Shared /\ Shared \subseteq Agents
        /\ lists \in [Agents -> [Gear -> Nat]] /\ \A a \in safe : lists[a][Foreign] > 0
    BY NamesAreApart DEF IInv, Typed, ForeignEntriesSurvive
  <2> HIDE DEF new
  <2> QED BY <1>2, <2>1, <2>2
<1>7. Typed' /\ HeldIsGiven'
  BY <1>1, <1>3, <1>4, <1>5, <1>6, MoveKeeps DEF IInv, Typed
<1>8. \A k \in Missing' : k \in Missing
  BY <1>4, <1>5 DEF Missing
<1>9. ok => Key(f) \notin Missing'
  BY <1>2, <1>4, <1>5 DEF Missing
<1>10. MissingAreAccounted'
  BY <1>1, <1>2, <1>3, <1>8, <1>9, AccountsAreKept DEF IInv
<1> QED BY <1>1, <1>6, <1>7, <1>10 DEF IInv, ForeignEntriesSurvive

(* Somebody else's entry: no job that could undo it holds a copy. *)
LEMMA EditStep ==
  ASSUME IInv, NEW a \in Agents, Edit(a) PROVE IInv'
<1>1. /\ lists' = [lists EXCEPT ![a][Foreign] = 1]
      /\ safe' = safe \/ (safe' = safe \cup {a} /\ \A j \in Jobs : job[j].agent # a)
      /\ a \in Shared /\ UNCHANGED <<store, job, faults, ever>>
  BY DEF Edit
<1>2. /\ lists' \in [Agents -> [Gear -> Nat]]
      /\ \A b \in Agents : lists[b][Foreign] > 0 => lists'[b][Foreign] > 0
      /\ lists'[a][Foreign] > 0
  BY <1>1, NamesAreApart DEF IInv, Typed
<1>3. Typed'
  BY <1>1, <1>2 DEF IInv, Typed
<1>4. HeldIsGiven'
  BY <1>1 DEF IInv, HeldIsGiven
<1>5. ForeignEntriesSurvive'
  <2>1. safe \subseteq Agents
    BY NamesAreApart DEF IInv, Typed
  <2> QED BY <1>1, <1>2, <2>1 DEF IInv, ForeignEntriesSurvive
<1>6. MissingAreAccounted'
  BY <1>1 DEF IInv, MissingAreAccounted, Accounted, Missing, Between
<1> QED BY <1>3, <1>4, <1>5, <1>6 DEF IInv

-----------------------------------------------------------------------------
(* The initial state. *)
LEMMA InitInv == Init => IInv
<1> SUFFICES ASSUME Init PROVE IInv
  OBVIOUS
<1> USE DEF Init
<1>1. Idle \in JobRecords /\ JobIsGood(Idle)
  BY NamesAreApart DEF Idle, JobRecords, JobIsGood, Calls, CallIsInPlace
<1>2. Typed
  <2>1. {Key(f) : f \in Shared \cap Files} \subseteq {Key(f) : f \in Files}
    OBVIOUS
  <2> QED BY <1>1, <2>1, NamesAreApart, AssetsAssumption DEF Typed, Kibana
<1>3. HeldIsGiven /\ ForeignEntriesSurvive
  BY DEF HeldIsGiven, ForeignEntriesSurvive
<1>4. Missing = {}
  <2>1. \A f \in Shared \cap Files : f \in Files /\ store[f] # {}
    OBVIOUS
  <2> QED BY <2>1 DEF Missing
<1>5. Accounted({})
  BY <1>4, FS_EmptySet DEF Accounted
<1>6. MissingAreAccounted
  BY <1>5 DEF MissingAreAccounted
<1> QED BY <1>2, <1>3, <1>6 DEF IInv

(* The invariant holds throughout. *)
LEMMA Invariance == Spec => []IInv
<1>1. ASSUME IInv, [Next]_vars PROVE IInv'
  <2>1. ASSUME NEW j \in Jobs, Loading(j) PROVE IInv'
    BY <1>1, <2>1, ListStep, SearchStep, GetStep, RunStep, PutStep, DeleteStep, RemoveStep,
       PostStep, OpenStep, FeedStep, LaunchStep, SetStep DEF Loading
  <2>2. ASSUME NEW j \in Jobs, Die(j) PROVE IInv'
    BY <1>1, <2>2, DieStep
  <2>3. ASSUME NEW j \in Jobs, NEW action \in Programs, Start(j, action) PROVE IInv'
    BY <1>1, <2>3, StartStep
  <2>4. ASSUME NEW a \in Agents, Edit(a) PROVE IInv'
    BY <1>1, <2>4, EditStep
  <2>5. CASE UNCHANGED vars
    BY <1>1, <2>5 DEF vars, server, history, IInv, Typed, HeldIsGiven,
       ForeignEntriesSurvive, MissingAreAccounted, Accounted, Missing, Between
  <2> QED BY <1>1, <2>1, <2>2, <2>3, <2>4, <2>5 DEF Next
<1> QED BY <1>1, InitInv, PTL DEF Spec

-----------------------------------------------------------------------------
(* Where a job goes on.                                                    *)

(* The files of the directories a job has not come to, and with those left *)
(* in its directory all files it has still to come to.                     *)
Later(J) ==
  {f \in Files : \E k \in J.loader + 1 .. Len(main(J.action)) : f \in FilesOf(J.action, k)}

Coming(J) == IF J.at \in Calls THEN J.todo \cup Later(J) ELSE {}

(* The place of a directory in main's order. *)
Rank ==
  [ilm |-> 1, workflows |-> 2, connectors |-> 3, ai_indexes |-> 4, tools |-> 5, skills |-> 6,
   agents |-> 7, synthetics |-> 8, aliases |-> 9, data_views |-> 10, ml |-> 11,
   rules_enable |-> 12, rules |-> 13, objects |-> 14, dashboards |-> 15, slos |-> 16,
   streams |-> 17, esql_views |-> 18, field_definitions |-> 19, esql_datasources |-> 20,
   esql_datasets |-> 21, knowledge |-> 22]

(* A full load takes the directories in that order. *)
LEMMA LoadInOrder == Len(Load) = 21 /\ \A k \in 1 .. 21 : Rank[Load[k].dir] = k
<1>1. Len(Load) = 21
  BY DEF Load
<1> USE DEF Load, Rank, Loader
<1>2. \A k \in 1 .. 7 : Rank[Load[k].dir] = k
  BY DEF load_ilm, load_workflows, load_connectors, load_ai_indexes, load_agent_tools,
     load_skills, load_agents
<1>3. \A k \in 8 .. 14 : Rank[Load[k].dir] = k
  BY DEF load_synthetics, load_aliases, load_dataviews, load_ml, enable_rules, load_rules,
     load_objects
<1>4. \A k \in 15 .. 21 : Rank[Load[k].dir] = k
  BY DEF load_dashboards, load_slos, load_streams, load_esql_views, load_field_definitions,
     load_esql_data_sources, load_esql_data_sets
<1> QED BY <1>1, <1>2, <1>3, <1>4

(* main: no action goes to a directory twice. *)
LEMMA DirsAreApart ==
  ASSUME NEW action \in Actions, NEW k \in 1 .. Len(main(action)),
         NEW l \in 1 .. Len(main(action)), main(action)[k].dir = main(action)[l].dir
  PROVE  k = l
<1>1. CASE action = "load"
  BY <1>1, LoadInOrder DEF main
<1>2. CASE action = "load_alerts"
  BY <1>2 DEF main, Single, Loader, enable_rules, load_rules
<1>3. CASE action = "load_aliases"
  BY <1>3 DEF main, Single, Loader, load_aliases, load_dataviews
<1>4. CASE action = "load_esql"
  BY <1>4 DEF main, Single, Loader, load_esql_views, load_esql_data_sources,
     load_esql_data_sets
<1>5. CASE action \notin {"load", "load_alerts", "load_aliases", "load_esql"}
  <2>1. Len(main(action)) = 1
    BY <1>5 DEF main, Single, Actions
  <2> QED BY <2>1
<1> QED BY <1>1, <1>2, <1>3, <1>4, <1>5

(* main: an action consists of loaders. *)
LEMMA MainLoads ==
  ASSUME NEW action \in Actions, NEW k \in 1 .. Len(main(action))
  PROVE  main(action)[k] \in Loaders
  BY FullLoad, SingleLoads DEF main, Actions

(* The tools have one loader, and what is searched for is no agent. *)
LEMMA LoadersAreFor ==
  ASSUME NEW l \in Loaders
  PROVE  /\ l.dir = "tools" <=> l = load_agent_tools
         /\ l.first = "search" => l.dir \notin {"agents", "tools", "skills", "ml"}
         /\ l.dir \in {"agents", "tools", "skills"} <=> l.first = "remove"
  BY DEF Loaders, Loader, load_ilm, load_workflows, load_connectors, load_ai_indexes,
     load_agent_tools, load_skills, load_agents, load_synthetics, load_aliases,
     load_dataviews, load_ml, enable_rules, load_rules, load_objects, load_dashboards,
     load_slos, load_streams, load_esql_views, load_field_definitions,
     load_esql_data_sources, load_esql_data_sets, load_new_knowledge

(* From job J it goes on as K, with these files to come. *)
GoesOn(J, K, files) ==
  /\ K.action = J.action /\ K.agent = NoFile
  /\ \/ K.at = "done" /\ K.file = NoFile /\ files = {}
     \/ K.at = "list" /\ K.file = NoFile /\ Coming(K) = files
     \/ /\ K.at \in Calls \ {"list"} /\ K.file \in files /\ Coming(K) = files \ {K.file}
        /\ K.adds = Asked(K.file)
        /\ K.at = IF K.file \in Shared THEN "get" ELSE main(K.action)[K.loader].first

(* At the next file of the directory. *)
LEMMA TakeGoesOn ==
  ASSUME NEW J \in JobRecords, J.action \in Actions, J.loader \in 1 .. Len(main(J.action)),
         J.agent = NoFile, NEW todo \in SUBSET FilesOf(J.action, J.loader),
         NEW K \in Take(J, todo)
  PROVE  /\ GoesOn(J, K, todo \cup Later(J)) /\ K.found = J.found /\ K.loader = J.loader
         /\ K.file \in FilesOf(J.action, J.loader)
<1>0. PICK f \in todo : IsAt(K, J, todo, f)
  BY TakeIs
<1>1. /\ K.at = IF f \in Shared THEN "get" ELSE main(J.action)[J.loader].first
      /\ K.file = f /\ K.todo = todo \ {f} /\ K.adds = Asked(f)
      /\ K.action = J.action /\ K.loader = J.loader
      /\ K.found = J.found /\ K.agent = J.agent
  BY <1>0, Zenon DEF IsAt
<1>2. main(J.action)[J.loader].first \in FirstCalls
  BY FirstIsACall
<1>3. K.at \in Calls \ {"list"}
  BY <1>1, <1>2 DEF FirstCalls, Calls
<1>4. Later(K) = Later(J)
  BY <1>1 DEF Later
<1>5. f \notin Later(J)
  <2> SUFFICES ASSUME NEW k \in J.loader + 1 .. Len(main(J.action)), f \in FilesOf(J.action, k)
               PROVE  FALSE
    BY DEF Later
  <2>1. main(J.action)[k].dir = main(J.action)[J.loader].dir
    BY DEF FilesOf
  <2>2. J.loader \in Nat /\ k \in 1 .. Len(main(J.action)) /\ k # J.loader
    BY DEF JobRecords
  <2> QED BY <2>1, <2>2, DirsAreApart
<1>6. Coming(K) = (todo \cup Later(J)) \ {f}
  BY <1>1, <1>3, <1>4, <1>5 DEF Coming
<1> QED BY <1>1, <1>3, <1>6 DEF GoesOn

(* At the next directory with files, or at the end. *)
LEMMA EnterGoesOn ==
  ASSUME NEW J \in JobRecords, J.action \in Actions, J.agent = NoFile, J.file = NoFile,
         NEW K \in Enter(J)
  PROVE  /\ GoesOn(J, K, Later(J)) /\ K.found \subseteq J.found
         /\ K.at \in Calls \ {"list"} => Dir[K.file] # "tools"
<1> DEFINE left  == {k \in J.loader + 1 .. Len(main(J.action)) : FilesOf(J.action, k) # {}}
<1>0. J.loader \in Nat /\ Len(main(J.action)) \in Nat
  <2>1. main(J.action) \in Seq(Loaders)
    BY FullLoad, SingleLoads DEF main, Actions
  <2> QED BY <2>1 DEF JobRecords
<1>1. ASSUME left = {}, K = End(J, "done")
      PROVE  GoesOn(J, K, Later(J)) /\ K.at \notin Calls /\ K.found = {}
  <2>1. Later(J) = {}
    BY <1>1 DEF Later
  <2>2. /\ K.action = J.action /\ K.agent = NoFile /\ K.found = {} /\ K.at = "done"
        /\ K.file = NoFile
    BY <1>1 DEF End, Idle
  <2> QED BY <2>1, <2>2 DEF GoesOn, Calls
<1>2. ASSUME NEW k \in left, \A l \in left : k <= l
      PROVE  /\ Later(J) = FilesOf(J.action, k) \cup Later([J EXCEPT !.loader = k])
             /\ k \in 1 .. Len(main(J.action))
  <2> DEFINE L == [J EXCEPT !.loader = k]
  <2>1. L.action = J.action /\ L.loader = k
    BY DEF JobRecords
  <2>2. k \in J.loader + 1 .. Len(main(J.action))
    OBVIOUS
  <2>3. \A l \in J.loader + 1 .. Len(main(J.action)) : l < k => FilesOf(J.action, l) = {}
    BY <1>0, <1>2
  <2>4. \A l \in J.loader + 1 .. Len(main(J.action)) :
          l = k \/ l \in k + 1 .. Len(main(J.action)) \/ FilesOf(J.action, l) = {}
    BY <1>0, <2>2, <2>3
  <2>5. \A l \in k + 1 .. Len(main(J.action)) : l \in J.loader + 1 .. Len(main(J.action))
    BY <1>0, <2>2
  <2>6. FilesOf(J.action, k) \subseteq Files
    BY DEF FilesOf
  <2> HIDE DEF left, L
  <2>7. \A f : f \in Later(J) <=> f \in FilesOf(J.action, k) \cup Later(L)
    BY <2>1, <2>2, <2>4, <2>5, <2>6 DEF Later
  <2> QED BY <1>0, <2>2, <2>7 DEF L
<1>3. ASSUME NEW k \in left, \A l \in left : k <= l, main(J.action)[k] = load_agent_tools,
             K = [J EXCEPT !.loader = k, !.todo = FilesOf(J.action, k), !.at = "list"]
      PROVE  GoesOn(J, K, Later(J)) /\ K.at = "list" /\ K.found = J.found
  <2> DEFINE files == FilesOf(J.action, k)
             L == [J EXCEPT !.loader = k]
  <2>1. K = [J EXCEPT !.loader = k, !.todo = files, !.at = "list"]
    BY <1>3
  <2>2. L.action = J.action /\ L.loader = k
    BY DEF JobRecords
  <2>3. Later(J) = files \cup Later(L)
    BY <1>2, <1>3
  <2> HIDE DEF files, left, L
  <2>4. /\ K.action = J.action /\ K.loader = k /\ K.file = NoFile
        /\ K.agent = NoFile /\ K.at = "list" /\ K.todo = files /\ K.found = J.found
    BY <2>1 DEF JobRecords
  <2>5. Later(K) = Later(L)
    BY <2>2, <2>4 DEF Later
  <2> QED BY <2>3, <2>4, <2>5 DEF GoesOn, Coming, Calls
<1>4. ASSUME NEW k \in left, \A l \in left : k <= l, main(J.action)[k] # load_agent_tools,
             K \in Take([J EXCEPT !.loader = k], FilesOf(J.action, k))
      PROVE  GoesOn(J, K, Later(J)) /\ Dir[K.file] # "tools" /\ K.found = J.found
  <2> DEFINE L == [J EXCEPT !.loader = k]
  <2>1. /\ L \in JobRecords /\ L.action = J.action /\ L.loader = k /\ L.found = J.found
        /\ L.agent = NoFile
    BY DEF JobRecords
  <2>2. k \in 1 .. Len(main(J.action)) /\ Later(J) = FilesOf(J.action, k) \cup Later(L)
    BY <1>2, <1>4
  <2> HIDE DEF L, left
  <2>3. K \in Take(L, FilesOf(L.action, L.loader))
    BY <1>4, <2>1 DEF L
  <2>4. /\ GoesOn(L, K, FilesOf(L.action, L.loader) \cup Later(L)) /\ K.found = L.found
        /\ K.file \in FilesOf(J.action, k)
    BY <2>1, <2>2, <2>3, TakeGoesOn
  <2>5. Dir[K.file] # "tools"
    BY <1>4, <2>2, <2>4, MainLoads, LoadersAreFor DEF FilesOf
  <2> QED BY <2>1, <2>2, <2>4, <2>5 DEF GoesOn
<1>5. \/ left = {} /\ K = End(J, "done")
      \/ \E k \in left :
           /\ \A l \in left : k <= l
           /\ \/ /\ main(J.action)[k] = load_agent_tools
                 /\ K = [J EXCEPT !.loader = k, !.todo = FilesOf(J.action, k), !.at = "list"]
              \/ /\ main(J.action)[k] # load_agent_tools
                 /\ K \in Take([J EXCEPT !.loader = k], FilesOf(J.action, k))
  BY EnterIs
<1> HIDE DEF left
<1> QED BY <1>1, <1>3, <1>4, <1>5 DEF Calls

(* After a file: at the next one, with what was listed for the tools. *)
LEMMA OnwardGoesOn ==
  ASSUME NEW J, JobIsGood(J), J.at \in Calls \ {"list"}, NEW K \in Onward(J)
  PROVE  /\ GoesOn(J, K, Coming(J)) /\ K.found \subseteq J.found
         /\ K.at \in Calls \ {"list"} /\ Dir[K.file] = "tools" =>
              Dir[J.file] = "tools" /\ K.found = J.found
<1> DEFINE found == IF Dir[J.file] = "tools" /\ J.todo # {} THEN J.found ELSE {}
           L     == [J EXCEPT !.agent = NoFile, !.held = NoGear, !.found = found]
<1>1. found \in SUBSET (Files \X Nat) /\ found \subseteq J.found
  BY DEF JobIsGood, JobRecords
<1>2. K \in IF J.todo # {} THEN Take(L, J.todo) ELSE Enter([L EXCEPT !.file = NoFile])
  BY DEF Onward
<1>3. Dir[J.file] = "tools" /\ J.todo # {} => found = J.found
  OBVIOUS
<1> HIDE DEF found
<1> DEFINE M == [L EXCEPT !.file = NoFile]
<1>4. /\ L \in JobRecords /\ L.action = J.action /\ L.loader = J.loader /\ L.agent = NoFile
      /\ L.found = found
      /\ M \in JobRecords /\ M.action = J.action /\ M.loader = J.loader
      /\ M.file = NoFile /\ M.agent = NoFile /\ M.found = found
  BY <1>1, NamesAreApart DEF JobIsGood, JobRecords
<1>5. /\ J.action \in Actions /\ J.loader \in 1 .. Len(main(J.action))
      /\ J.todo \in SUBSET FilesOf(J.action, J.loader)
      /\ J.file \in FilesOf(J.action, J.loader)
  BY DEF JobIsGood
<1> HIDE DEF M, L
<1>6. Later(L) = Later(J) /\ Later(M) = Later(J) /\ Coming(J) = J.todo \cup Later(J)
  BY <1>4 DEF Later, Coming
<1>7. CASE J.todo # {}
  <2>1. K \in Take(L, J.todo)
    BY <1>2, <1>7
  <2>2. /\ GoesOn(L, K, J.todo \cup Later(L)) /\ K.found = L.found
        /\ K.file \in FilesOf(J.action, J.loader)
    BY <1>4, <1>5, <2>1, TakeGoesOn
  <2>3. GoesOn(J, K, Coming(J))
    BY <1>1, <1>4, <1>6, <2>2 DEF GoesOn
  <2>4. Dir[K.file] = "tools" => Dir[J.file] = "tools"
    BY <1>5, <2>2 DEF FilesOf
  <2> QED BY <1>1, <1>3, <1>4, <1>7, <2>2, <2>3, <2>4
<1>8. CASE J.todo = {}
  <2>1. K \in Enter(M)
    BY <1>2, <1>8 DEF M
  <2>2. /\ GoesOn(M, K, Later(M)) /\ K.found \subseteq M.found
        /\ K.at \in Calls \ {"list"} => Dir[K.file] # "tools"
    BY <1>4, <1>5, <2>1, EnterGoesOn
  <2>3. GoesOn(J, K, Coming(J))
    BY <1>1, <1>4, <1>6, <1>8, <2>2 DEF GoesOn
  <2> QED BY <1>1, <1>4, <2>2, <2>3
<1> QED BY <1>7, <1>8

(* The job keeps to its file, with no more agents to give it to. *)
Stays(J, K) ==
  /\ K.action = J.action /\ K.loader = J.loader /\ K.todo = J.todo /\ K.file = J.file
  /\ K.at \in Calls \ {"list"} /\ J.at \in Calls \ {"list"}
  /\ K.adds \subseteq J.adds /\ K.agent \in J.adds \cup {J.agent, NoFile}

(* Where the calls lead: a job stays at its file or goes on, the others    *)
(* stand; what it found is nothing new unless the call is a search.        *)
Moved(j) ==
  /\ job[j].at \in Calls /\ \A i \in Jobs : i # j => job'[i] = job[i]
  /\ \/ Stays(job[j], job'[j])
     \/ GoesOn(job[j], job'[j], Coming(job[j]))

LEMMA ProceedGoesOn ==
  ASSUME Typed, NEW j \in Jobs, job[j].at \in Calls \ {"list"}, Proceed(j)
  PROVE  /\ Moved(j) /\ GoesOn(job[j], job'[j], Coming(job[j]))
         /\ job'[j].found \subseteq job[j].found
         /\ job'[j].at \in Calls \ {"list"} /\ Dir[job'[j].file] = "tools" =>
              Dir[job[j].file] = "tools" /\ job'[j].found = job[j].found
<1>1. PICK K \in Onward(job[j]) : job' = [job EXCEPT ![j] = K]
  BY DEF Proceed
<1>2. /\ GoesOn(job[j], K, Coming(job[j])) /\ K.found \subseteq job[j].found
      /\ K.at \in Calls \ {"list"} /\ Dir[K.file] = "tools" =>
           Dir[job[j].file] = "tools" /\ K.found = job[j].found
  BY OnwardGoesOn DEF Typed
<1>3. job'[j] = K /\ \A i \in Jobs : i # j => job'[i] = job[i]
  BY <1>1 DEF Typed
<1> QED BY <1>2, <1>3 DEF Moved

LEMMA GotoStays ==
  ASSUME Typed, NEW j \in Jobs, job[j].at \in Calls \ {"list"}, NEW at \in Calls \ {"list"},
         Goto(j, at)
  PROVE  /\ Moved(j) /\ Stays(job[j], job'[j])
         /\ job'[j].at = at /\ job'[j].found = job[j].found /\ job'[j].adds = job[j].adds
         /\ job'[j].agent = job[j].agent /\ job'[j].held = job[j].held
<1> DEFINE K == [job[j] EXCEPT !.at = at]
<1>1. job'[j] = K /\ \A i \in Jobs : i # j => job'[i] = job[i]
  BY DEF Goto, Typed
<1>2. job[j] \in JobRecords
  BY DEF Typed
<1>3. /\ K.action = job[j].action /\ K.loader = job[j].loader /\ K.todo = job[j].todo
      /\ K.file = job[j].file /\ K.at = at /\ K.adds = job[j].adds /\ K.agent = job[j].agent
      /\ K.found = job[j].found /\ K.held = job[j].held
  BY <1>2 DEF JobRecords
<1> HIDE DEF K
<1> QED BY <1>1, <1>3 DEF Moved, Stays

LEMMA ListMoves ==
  ASSUME Typed, NEW j \in Jobs, List(j)
  PROVE  /\ Moved(j) /\ GoesOn(job[j], job'[j], Coming(job[j])) /\ job[j].at = "list"
         /\ job'[j].found \in Pages("workflows")
<1>0. job[j].at = "list" /\ job[j].at \in Calls
  BY DEF List, Calls
<1>1. PICK page \in Pages("workflows") :
        \E J \in Take([job[j] EXCEPT !.found = page], job[j].todo) :
          job' = [job EXCEPT ![j] = J]
  BY DEF List
<1> DEFINE L == [job[j] EXCEPT !.found = page]
<1>2. page \in SUBSET (Files \X Nat)
  BY DEF Pages, Objects, Typed
<1>3. JobIsGood(job[j]) /\ job[j] \in JobRecords
  BY <1>0, UnderWay
<1>4. /\ L \in JobRecords /\ L.action = job[j].action /\ L.loader = job[j].loader
      /\ L.agent = job[j].agent /\ L.found = page
  BY <1>2, <1>3 DEF JobRecords
<1>5. /\ L.action \in Actions /\ L.loader \in 1 .. Len(main(L.action)) /\ L.agent = NoFile
      /\ job[j].todo \in SUBSET FilesOf(L.action, L.loader)
  BY <1>0, <1>3, <1>4 DEF JobIsGood
<1>6. PICK K \in Take(L, job[j].todo) : job' = [job EXCEPT ![j] = K]
  BY <1>1
<1> HIDE DEF L
<1>7. GoesOn(L, K, job[j].todo \cup Later(L)) /\ K.found = page
  BY <1>4, <1>5, TakeGoesOn
<1>8. Later(L) = Later(job[j])
  BY <1>4 DEF Later
<1>9. GoesOn(job[j], K, Coming(job[j]))
  BY <1>0, <1>4, <1>7, <1>8 DEF GoesOn, Coming
<1>10. job'[j] = K /\ \A i \in Jobs : i # j => job'[i] = job[i]
  BY <1>6 DEF Typed
<1> QED BY <1>0, <1>7, <1>9, <1>10 DEF Moved

LEMMA SearchMoves ==
  ASSUME Typed, NEW j \in Jobs, Search(j)
  PROVE  /\ Moved(j) /\ Stays(job[j], job'[j]) /\ job[j].at = "search"
         /\ job'[j].adds = job[j].adds /\ job'[j].agent = NoFile
         /\ \E page \in Pages(Dir[job[j].file]) :
              /\ job'[j].found = Found(j, page)
              /\ job'[j].at = IF Found(j, page) = {} THEN "post" ELSE "delete"
<1> DEFINE J == job[j]
<1>0. J.at = "search" /\ J.at \in Calls \ {"list"}
  BY DEF Search, Calls
<1>1. PICK page \in Pages(Dir[J.file]) :
        job' = [job EXCEPT ![j].found = Found(j, page),
                           ![j].at = IF Found(j, page) = {} THEN "post" ELSE "delete"]
  BY DEF Search
<1> DEFINE found == Found(j, page)
           at    == IF found = {} THEN "post" ELSE "delete"
           K     == [J EXCEPT !.found = found, !.at = at]
<1>2. J \in JobRecords /\ J.agent = NoFile
  BY <1>0 DEF Typed, JobIsGood
<1>3. job'[j] = K /\ \A i \in Jobs : i # j => job'[i] = job[i]
  BY <1>1 DEF Typed
<1>4. at \in Calls \ {"list"}
  BY DEF Calls
<1> HIDE DEF found, at
<1>5. /\ K.action = J.action /\ K.loader = J.loader /\ K.todo = J.todo
      /\ K.file = J.file /\ K.at = at /\ K.adds = J.adds /\ K.agent = J.agent
      /\ K.found = found
  BY <1>2 DEF JobRecords
<1> HIDE DEF K
<1>6. Moved(j) /\ Stays(J, job'[j])
  BY <1>0, <1>2, <1>3, <1>4, <1>5 DEF Moved, Stays
<1> QED BY <1>0, <1>2, <1>3, <1>5, <1>6 DEF found, at

LEMMA RunMoves ==
  ASSUME Typed, NEW j \in Jobs, run_workflow(j)
  PROVE  /\ Moved(j) /\ job[j].at = "run" /\ job'[j].agent = NoFile
         /\ \E page \in Pages("workflows") :
              \/ /\ Found(j, page) = {} /\ Proceed(j) /\ job'[j].found \subseteq job[j].found
              \/ /\ Stays(job[j], job'[j]) /\ job'[j].at = "launch"
                 /\ \E o \in Found(j, page) : job'[j].found = {o}
<1> DEFINE J == job[j]
<1>0. J.at = "run" /\ J.at \in Calls \ {"list"}
  BY DEF run_workflow, Calls
<1>1. PICK page \in Pages("workflows") :
        IF Found(j, page) = {} THEN Proceed(j)
        ELSE \E o \in Found(j, page) :
               job' = [job EXCEPT ![j].found = {o}, ![j].at = "launch"]
  BY DEF run_workflow
<1>2. CASE Found(j, page) = {}
  <2>1. Moved(j) /\ job'[j].found \subseteq J.found /\ GoesOn(J, job'[j], Coming(J))
    BY <1>0, <1>1, <1>2, ProceedGoesOn
  <2> QED BY <1>0, <1>1, <1>2, <2>1 DEF GoesOn
<1>3. CASE Found(j, page) # {}
  <2>1. PICK o \in Found(j, page) : job' = [job EXCEPT ![j].found = {o}, ![j].at = "launch"]
    BY <1>1, <1>3
  <2>2. PICK found : found = {o}
    OBVIOUS
  <2> DEFINE K == [J EXCEPT !.found = found, !.at = "launch"]
  <2>3. J \in JobRecords /\ J.agent = NoFile
    BY <1>0 DEF Typed, JobIsGood
  <2>4. job'[j] = K /\ \A i \in Jobs : i # j => job'[i] = job[i]
    BY <2>1, <2>2 DEF Typed
  <2>5. /\ K.action = J.action /\ K.loader = J.loader /\ K.todo = J.todo
        /\ K.file = J.file /\ K.at = "launch" /\ K.adds = J.adds /\ K.agent = J.agent
        /\ K.found = found
    BY <2>3 DEF JobRecords
  <2> HIDE DEF K
  <2>6. Moved(j) /\ Stays(J, job'[j])
    BY <1>0, <2>3, <2>4, <2>5 DEF Moved, Stays, Calls
  <2> QED BY <1>0, <2>2, <2>3, <2>4, <2>5, <2>6
<1> QED BY <1>2, <1>3

LEMMA DeleteMoves ==
  ASSUME Typed, NEW j \in Jobs, NEW ok \in BOOLEAN, Delete(j, ok)
  PROVE  /\ Moved(j) /\ Stays(job[j], job'[j]) /\ job[j].at = "delete"
         /\ job'[j].adds = job[j].adds /\ job'[j].agent = NoFile
         /\ \E o \in job[j].found :
              /\ job'[j].found = job[j].found \ {o}
              /\ job'[j].at = IF job[j].found = {o} THEN "post" ELSE "delete"
              /\ store' = IF ok THEN [store EXCEPT ![o[1]] = @ \ {o[2]}] ELSE store
<1> DEFINE J == job[j]
<1>0. J.at = "delete" /\ J.at \in Calls \ {"list"}
  BY DEF Delete, Call, Calls
<1>1. PICK o \in J.found :
        /\ store' = IF ok THEN [store EXCEPT ![o[1]] = @ \ {o[2]}] ELSE store
        /\ job' = [job EXCEPT ![j].found = @ \ {o},
                              ![j].at = IF J.found = {o} THEN "post" ELSE "delete"]
  BY DEF Delete
<1> DEFINE found == J.found \ {o}
           at    == IF J.found = {o} THEN "post" ELSE "delete"
           K     == [J EXCEPT !.found = found, !.at = at]
<1>2. J \in JobRecords /\ J.agent = NoFile
  BY <1>0 DEF Typed, JobIsGood
<1>3. job'[j] = K /\ \A i \in Jobs : i # j => job'[i] = job[i]
  BY <1>1 DEF Typed
<1>4. at \in Calls \ {"list"}
  BY DEF Calls
<1> HIDE DEF found, at
<1>5. /\ K.action = J.action /\ K.loader = J.loader /\ K.todo = J.todo
      /\ K.file = J.file /\ K.at = at /\ K.adds = J.adds /\ K.agent = J.agent
      /\ K.found = found
  BY <1>2 DEF JobRecords
<1> HIDE DEF K
<1>6. Moved(j) /\ Stays(J, job'[j])
  BY <1>0, <1>2, <1>3, <1>4, <1>5 DEF Moved, Stays
<1> QED BY <1>0, <1>1, <1>2, <1>3, <1>5, <1>6 DEF found, at

LEMMA GetMoves ==
  ASSUME Typed, NEW j \in Jobs, Get(j)
  PROVE  /\ Moved(j) /\ Stays(job[j], job'[j]) /\ job[j].at = "get" /\ job'[j].at = "set"
         /\ job'[j].found = job[j].found /\ job'[j].agent \in job[j].adds
         /\ job'[j].adds = job[j].adds \ {job'[j].agent}
         /\ job'[j].held = lists[job'[j].agent]
<1> DEFINE J == job[j]
<1>0. J.at = "get" /\ J.at \in Calls \ {"list"}
  BY DEF Get, Calls
<1>1. PICK a \in J.adds :
        job' = [job EXCEPT ![j].at = "set", ![j].agent = a, ![j].adds = @ \ {a},
                           ![j].held = lists[a]]
  BY DEF Get
<1> DEFINE held == lists[a]
           adds == J.adds \ {a}
           K == [J EXCEPT !.at = "set", !.agent = a, !.adds = adds, !.held = held]
<1>2. J \in JobRecords
  BY DEF Typed
<1>3. job'[j] = K /\ \A i \in Jobs : i # j => job'[i] = job[i]
  BY <1>1 DEF Typed
<1> HIDE DEF held, adds
<1>4. /\ K.action = J.action /\ K.loader = J.loader /\ K.todo = J.todo
      /\ K.file = J.file /\ K.at = "set" /\ K.adds = adds /\ K.agent = a
      /\ K.found = J.found /\ K.held = held
  BY <1>2 DEF JobRecords
<1> HIDE DEF K
<1>5. Moved(j) /\ Stays(J, job'[j])
  BY <1>0, <1>3, <1>4 DEF Moved, Stays, Calls, adds
<1> QED BY <1>0, <1>3, <1>4, <1>5 DEF held, adds

LEMMA SetMoves ==
  ASSUME Typed, NEW j \in Jobs, NEW ok \in BOOLEAN, Set(j, ok)
  PROVE  /\ Moved(j) /\ job[j].at = "set" /\ job'[j].agent = NoFile
         /\ job'[j].found \subseteq job[j].found
         /\ job[j].adds # {} => /\ Stays(job[j], job'[j]) /\ job'[j].at = "get"
                                /\ job'[j].found = job[j].found
                                /\ job'[j].adds = job[j].adds
         /\ job[j].adds = {} => Proceed(j)
<1> DEFINE J == job[j]
<1>0. J.at = "set" /\ J.at \in Calls \ {"list"}
  BY DEF Set, Call, Calls
<1>1. CASE J.adds = {}
  <2>1. Proceed(j)
    BY <1>1 DEF Set
  <2>2. Moved(j) /\ GoesOn(J, job'[j], Coming(J)) /\ job'[j].found \subseteq J.found
    BY <1>0, <2>1, ProceedGoesOn
  <2> QED BY <1>0, <1>1, <2>1, <2>2 DEF GoesOn
<1>2. CASE J.adds # {}
  <2> DEFINE K == [J EXCEPT !.at = "get", !.agent = NoFile, !.held = NoGear]
  <2>1. job'[j] = K /\ \A i \in Jobs : i # j => job'[i] = job[i]
    BY <1>2 DEF Set, Typed
  <2>2. J \in JobRecords
    BY DEF Typed
  <2>3. /\ K.action = J.action /\ K.loader = J.loader /\ K.todo = J.todo
        /\ K.file = J.file /\ K.at = "get" /\ K.adds = J.adds /\ K.agent = NoFile
        /\ K.found = J.found
    BY <2>2 DEF JobRecords
  <2> HIDE DEF K
  <2>4. Moved(j) /\ Stays(J, job'[j])
    BY <1>0, <2>1, <2>3 DEF Moved, Stays, Calls
  <2> QED BY <1>0, <1>2, <2>1, <2>3, <2>4
<1> QED BY <1>1, <1>2

(* What follows a POST keeps to the file, or goes on. *)
LEMMA AfterPostGoesOn ==
  ASSUME Typed, NEW j \in Jobs, job[j].at = "post", AfterPost(j)
  PROVE  /\ Moved(j) /\ job'[j].agent = NoFile /\ job'[j].found \subseteq job[j].found
         /\ \/ /\ Stays(job[j], job'[j]) /\ job'[j].found = job[j].found
               /\ job'[j].adds = job[j].adds
               /\ \/ job'[j].at = "open" /\ Dir[job[j].file] = "ml"
                  \/ job'[j].at = "run" /\ Dir[job[j].file] = "workflows"
                  \/ /\ job'[j].at = "get" /\ Dir[job[j].file] \in {"tools", "skills"}
            \/ /\ Proceed(j) /\ Dir[job[j].file] # "ml"
               /\ ~(Dir[job[j].file] = "workflows" /\ "superdemo-authrun" \in Tags[job[j].file])
               /\ ~(Dir[job[j].file] \in {"tools", "skills"} /\ job[j].adds # {})
<1>1. job[j].at \in Calls \ {"list"} /\ job[j].agent = NoFile
  BY DEF Calls, Typed, JobIsGood
<1>2. \/ Goto(j, "open") /\ Dir[job[j].file] = "ml"
      \/ Goto(j, "run") /\ Dir[job[j].file] = "workflows"
      \/ Goto(j, "get") /\ Dir[job[j].file] \in {"tools", "skills"}
      \/ /\ Proceed(j) /\ Dir[job[j].file] # "ml"
         /\ ~(Dir[job[j].file] = "workflows" /\ "superdemo-authrun" \in Tags[job[j].file])
         /\ ~(Dir[job[j].file] \in {"tools", "skills"} /\ job[j].adds # {})
  BY Zenon DEF AfterPost
<1>3. CASE Goto(j, "open") /\ Dir[job[j].file] = "ml"
  BY <1>1, <1>3, GotoStays DEF Calls
<1>4. CASE Goto(j, "run") /\ Dir[job[j].file] = "workflows"
  BY <1>1, <1>4, GotoStays DEF Calls
<1>5. CASE Goto(j, "get") /\ Dir[job[j].file] \in {"tools", "skills"}
  BY <1>1, <1>5, GotoStays DEF Calls
<1>6. CASE Proceed(j) /\ <1>2!4
  <2>1. /\ Moved(j) /\ GoesOn(job[j], job'[j], Coming(job[j]))
        /\ job'[j].found \subseteq job[j].found
    BY <1>1, <1>6, ProceedGoesOn
  <2> QED BY <1>6, <2>1 DEF GoesOn
<1> QED BY <1>2, <1>3, <1>4, <1>5, <1>6

-----------------------------------------------------------------------------
(* The ranges of the variables.                                            *)

(* Only what Kibana brought is there without a job, and of agents only.    *)
InRange ==
  /\ store \in [Files -> SUBSET (0 .. MaxJobs)]
  /\ \A f \in Files \ Agents : store[f] \subseteq Jobs
  /\ ref \in [Files -> SUBSET (Files \X Jobs)]
  /\ feed \in [Files -> {"closed", "opened", "started"}]
  /\ ran \subseteq Files \X Jobs
  /\ faults \in 0 .. MaxFaults /\ disturbed \subseteq Jobs
  /\ \A j \in Jobs : job[j].found \subseteq Files \X Jobs

LEMMA JobsAreNumbers == Jobs \subseteq 0 .. MaxJobs /\ Jobs \subseteq Nat
  BY AssetsAssumption DEF Jobs

(* What a search answers was made by jobs, if it is not for agents. *)
LEMMA PagesAreRanged ==
  ASSUME InRange, NEW dir, dir # "agents", NEW page \in Pages(dir)
  PROVE  page \subseteq Files \X Jobs
  BY AssetsAssumption DEF Pages, Objects, InRange, Agents

(* A refused call is counted, up to the bound. *)
LEMMA CallInRange ==
  ASSUME InRange, NEW j \in Jobs, NEW at, NEW ok \in BOOLEAN, Call(j, at, ok)
  PROVE  faults' \in 0 .. MaxFaults /\ disturbed' \subseteq Jobs
  BY AssetsAssumption DEF Call, InRange

(* A call that leaves the job with no more than it had found. *)
LEMMA RangeKept ==
  ASSUME Typed, InRange, NEW j \in Jobs, Moved(j),
         job'[j].found \subseteq job[j].found \/ job'[j].found \subseteq Files \X Jobs,
         faults' \in 0 .. MaxFaults, disturbed' \subseteq Jobs,
         \/ store' = store
         \/ \E f \in Files : \E s \in SUBSET (store[f] \cup Jobs) :
              store' = [store EXCEPT ![f] = s],
         ref' \in [Files -> SUBSET (Files \X Jobs)],
         feed' \in [Files -> {"closed", "opened", "started"}],
         ran' \subseteq Files \X Jobs
  PROVE  InRange'
<1>1. \A i \in Jobs : job'[i].found \subseteq Files \X Jobs
  BY DEF Moved, InRange
<1> DEFINE ranged == /\ store' \in [Files -> SUBSET (0 .. MaxJobs)]
                     /\ \A g \in Files \ Agents : store'[g] \subseteq Jobs
<1>2. ranged
  <2>1. CASE store' = store
    BY <2>1 DEF InRange
  <2>2. ASSUME NEW f \in Files, NEW s \in SUBSET (store[f] \cup Jobs),
               store' = [store EXCEPT ![f] = s]
        PROVE  ranged
    BY <2>2, JobsAreNumbers DEF InRange
  <2> QED BY <2>1, <2>2
<1> QED BY <1>1, <1>2 DEF InRange

LEMMA LoadingInRange ==
  ASSUME Typed, InRange, NEW j \in Jobs, Loading(j) PROVE InRange'
<1> USE DEF Calls
<1>0. /\ ref \in [Files -> SUBSET (Files \X Jobs)]
      /\ feed \in [Files -> {"closed", "opened", "started"}]
      /\ ran \subseteq Files \X Jobs /\ faults \in 0 .. MaxFaults /\ disturbed \subseteq Jobs
      /\ {j} \in SUBSET Jobs /\ {} \in SUBSET Jobs /\ disturbed \cup {j} \subseteq Jobs
  BY DEF InRange
<1>00. job[j].at \in Calls /\ job[j].at # "list" => job[j].file \in Files
  BY UnderWay
<1>1. CASE List(j)
  <2>1. Moved(j) /\ job'[j].found \subseteq Files \X Jobs
    BY <1>1, ListMoves, PagesAreRanged
  <2>2. UNCHANGED <<store, ref, feed, ran, faults>> /\ disturbed' \subseteq Jobs
    BY <1>0, <1>1 DEF List, Searched, server
  <2> QED BY <1>0, <2>1, <2>2, RangeKept
<1>2. CASE Search(j)
  <2>1. /\ Moved(j) /\ job[j].at = "search"
        /\ \E page \in Pages(Dir[job[j].file]) : job'[j].found = Found(j, page)
    BY <1>2, SearchMoves
  <2>2. Dir[job[j].file] # "agents"
    BY <2>1, MainLoads, LoadersAreFor DEF Typed, JobIsGood, CallIsInPlace, FilesOf
  <2>3. job'[j].found \subseteq Files \X Jobs
    BY <2>1, <2>2, PagesAreRanged DEF Found
  <2>4. UNCHANGED <<store, ref, feed, ran, faults>> /\ disturbed' \subseteq Jobs
    BY <1>0, <1>2 DEF Search, Searched, server
  <2> QED BY <1>0, <2>1, <2>3, <2>4, RangeKept
<1>3. CASE Get(j)
  <2>1. Moved(j) /\ job'[j].found = job[j].found
    BY <1>3, GetMoves
  <2>2. UNCHANGED <<store, ref, feed, ran, faults, disturbed>>
    BY <1>3 DEF Get, server, history
  <2> QED BY <1>0, <2>1, <2>2, RangeKept
<1>4. CASE run_workflow(j)
  <2>1. UNCHANGED <<store, ref, feed, ran, faults>> /\ disturbed' \subseteq Jobs
    BY <1>0, <1>4 DEF run_workflow, Searched, server
  <2>2. Moved(j)
    BY <1>4, RunMoves
  <2>3. job'[j].found \subseteq job[j].found \/ job'[j].found \subseteq Files \X Jobs
    <3>1. PICK page \in Pages("workflows") :
            \/ job'[j].found \subseteq job[j].found
            \/ \E o \in Found(j, page) : job'[j].found = {o}
      BY <1>4, RunMoves
    <3>2. Found(j, page) \subseteq Files \X Jobs
      BY PagesAreRanged DEF Found
    <3> QED BY <3>1, <3>2
  <2> QED BY <1>0, <2>1, <2>2, <2>3, RangeKept
<1>12. ASSUME NEW ok \in BOOLEAN, Launch(j, ok) PROVE InRange'
  <2>1. /\ job[j].at = "launch" /\ Proceed(j) /\ UNCHANGED <<store, ref, feed>>
        /\ faults' \in 0 .. MaxFaults /\ disturbed' \subseteq Jobs
    BY <1>12, CallInRange DEF Launch, Call
  <2>2. Moved(j) /\ job'[j].found \subseteq job[j].found
    BY <2>1, ProceedGoesOn
  <2>3. ran' \subseteq Files \X Jobs
    BY <1>0, <1>12 DEF Launch, InRange
  <2> QED BY <1>0, <2>1, <2>2, <2>3, RangeKept
<1>5. ASSUME NEW ok \in BOOLEAN, Put(j, ok) PROVE InRange'
  <2>1. /\ job[j].at = "put" /\ Proceed(j) /\ UNCHANGED <<ref, feed, ran>>
        /\ store' = store \/ store' = [store EXCEPT ![job[j].file] = {j}]
        /\ faults' \in 0 .. MaxFaults /\ disturbed' \subseteq Jobs
    BY <1>5, CallInRange DEF Put, Call, StoreIs
  <2>2. Moved(j) /\ job'[j].found \subseteq job[j].found
    BY <2>1, ProceedGoesOn
  <2> QED BY <1>0, <1>00, <2>1, <2>2, RangeKept
<1>6. ASSUME NEW ok \in BOOLEAN, Delete(j, ok) PROVE InRange'
  <2>1. PICK o \in job[j].found :
          /\ job'[j].found = job[j].found \ {o}
          /\ store' = IF ok THEN [store EXCEPT ![o[1]] = @ \ {o[2]}] ELSE store
    BY <1>6, DeleteMoves
  <2>2. Moved(j)
    BY <1>6, DeleteMoves
  <2>5. /\ faults' \in 0 .. MaxFaults /\ disturbed' \subseteq Jobs
        /\ UNCHANGED <<ref, feed, ran>>
    BY <1>6, CallInRange DEF Delete
  <2>3. o[1] \in Files
    BY DEF InRange
  <2>4. store' = store \/ \E s \in SUBSET store[o[1]] : store' = [store EXCEPT ![o[1]] = s]
    BY <2>1
  <2> QED BY <1>0, <2>1, <2>2, <2>3, <2>4, <2>5, RangeKept
<1>7. ASSUME NEW ok \in BOOLEAN, Remove(j, ok) PROVE InRange'
  <2>1. /\ job[j].at = "remove" /\ Goto(j, "post") /\ UNCHANGED <<ref, feed, ran>>
        /\ store' = store \/ store' = [store EXCEPT ![job[j].file] = {}]
        /\ faults' \in 0 .. MaxFaults /\ disturbed' \subseteq Jobs
    BY <1>7, CallInRange DEF Remove, Call
  <2>2. Moved(j) /\ job'[j].found = job[j].found
    BY <2>1, GotoStays
  <2> QED BY <1>0, <1>00, <2>1, <2>2, RangeKept
<1>8. ASSUME NEW ok \in BOOLEAN, Post(j, ok) PROVE InRange'
  <2>1. /\ job[j].at = "post" /\ AfterPost(j) /\ UNCHANGED <<feed, ran>>
        /\ store' = store \/ store' = [store EXCEPT ![job[j].file] = store[job[j].file] \cup {j}]
        /\ faults' \in 0 .. MaxFaults /\ disturbed' \subseteq Jobs
    BY <1>8, CallInRange DEF Post, Call, StoreIs
  <2>2. Moved(j) /\ job'[j].found \subseteq job[j].found
    BY <2>1, AfterPostGoesOn
  <2>3. ref' = ref \/ Wire(j)
    BY <1>8, Zenon DEF Post
  <2>4. ref' \in [Files -> SUBSET (Files \X Jobs)]
    <3>1. job[j].found \in SUBSET (Files \X Jobs)
      BY DEF InRange
    <3>2. ref' = ref \/ \E r \in SUBSET (Files \X Jobs) : ref' = [ref EXCEPT ![job[j].file] = r]
      BY <2>3, <3>1 DEF Wire
    <3> QED BY <1>0, <3>2
  <2> QED BY <1>0, <1>00, <2>1, <2>2, <2>4, RangeKept
<1>9. ASSUME NEW ok \in BOOLEAN, Open(j, ok) PROVE InRange'
  <2>1. /\ job[j].at = "open" /\ Goto(j, "start") /\ UNCHANGED <<store, ref, ran>>
        /\ feed' = feed \/ feed' = [feed EXCEPT ![job[j].file] = "opened"]
        /\ faults' \in 0 .. MaxFaults /\ disturbed' \subseteq Jobs
    BY <1>9, CallInRange DEF Open, Call
  <2>2. Moved(j) /\ job'[j].found = job[j].found
    BY <2>1, GotoStays
  <2> QED BY <1>0, <1>00, <2>1, <2>2, RangeKept
<1>10. ASSUME NEW ok \in BOOLEAN, StartFeed(j, ok) PROVE InRange'
  <2>1. /\ job[j].at = "start" /\ Proceed(j) /\ UNCHANGED <<store, ref, ran>>
        /\ feed' = feed \/ feed' = [feed EXCEPT ![job[j].file] = "started"]
        /\ faults' \in 0 .. MaxFaults /\ disturbed' \subseteq Jobs
    BY <1>10, CallInRange DEF StartFeed, Call
  <2>2. Moved(j) /\ job'[j].found \subseteq job[j].found
    BY <2>1, ProceedGoesOn
  <2> QED BY <1>0, <1>00, <2>1, <2>2, RangeKept
<1>11. ASSUME NEW ok \in BOOLEAN, Set(j, ok) PROVE InRange'
  <2>1. Moved(j) /\ job'[j].found \subseteq job[j].found
    BY <1>11, SetMoves
  <2>2. /\ UNCHANGED <<store, ref, feed, ran>>
        /\ faults' \in 0 .. MaxFaults /\ disturbed' \subseteq Jobs
    BY <1>11, CallInRange DEF Set
  <2> QED BY <1>0, <2>1, <2>2, RangeKept
<1> QED BY <1>1, <1>2, <1>3, <1>4, <1>5, <1>6, <1>7, <1>8, <1>9, <1>10, <1>11, <1>12
  DEF Loading

(* Starting a job and its death leave the server alone. *)
LEMMA StartGoesOn ==
  ASSUME Typed, NEW j \in Jobs, NEW action \in Programs, Start(j, action)
  PROVE  /\ job[j] = Idle /\ \A i \in Jobs : i # j => job'[i] = job[i]
         /\ GoesOn([Idle EXCEPT !.action = action], job'[j],
                   Later([Idle EXCEPT !.action = action]))
         /\ job'[j].found = {}
         /\ job'[j].at \in Calls \ {"list"} => Dir[job'[j].file] # "tools"
<1> DEFINE J == [Idle EXCEPT !.action = action]
<1>1. PICK K \in Enter(J) : job' = [job EXCEPT ![j] = K]
  BY DEF Start
<1>2. /\ J \in JobRecords /\ J.action = action /\ J.agent = NoFile /\ J.file = NoFile
      /\ J.found = {} /\ action \in Actions
  BY ProgramsAssumption, NamesAreApart DEF Idle, JobRecords
<1>3. job[j] = Idle
  BY DEF Start
<1> HIDE DEF J
<1>4. /\ GoesOn(J, K, Later(J)) /\ K.found \subseteq J.found
      /\ K.at \in Calls \ {"list"} => Dir[K.file] # "tools"
  BY <1>2, EnterGoesOn
<1>5. job'[j] = K /\ \A i \in Jobs : i # j => job'[i] = job[i]
  BY <1>1 DEF Typed
<1> QED BY <1>2, <1>3, <1>4, <1>5 DEF J

LEMMA DieEnds ==
  ASSUME Typed, NEW j \in Jobs, Die(j)
  PROVE  /\ \A i \in Jobs : i # j => job'[i] = job[i]
         /\ job[j].at \in Calls /\ job'[j].at = "dead" /\ job'[j].found = {}
         /\ job'[j].agent = NoFile /\ job'[j].file = NoFile
<1> DEFINE K == End(job[j], "dead")
<1>1. K.at = "dead" /\ K.found = {} /\ K.agent = NoFile /\ K.file = NoFile
  BY DEF End, Idle
<1>2. job'[j] = K /\ job[j].at \in Calls /\ \A i \in Jobs : i # j => job'[i] = job[i]
  BY DEF Die, Running, Typed
<1> HIDE DEF K
<1> QED BY <1>1, <1>2

LEMMA RangeInvariant == Spec => []InRange
<1>1. Init => InRange
  <2> SUFFICES ASSUME Init PROVE InRange
    OBVIOUS
  <2>1. store \in [Files -> SUBSET (0 .. MaxJobs)]
    BY AssetsAssumption DEF Init, Kibana
  <2>2. \A f \in Files \ Agents : store[f] \subseteq Jobs
    BY NamesAreApart DEF Init
  <2>3. \A j \in Jobs : job[j].found \subseteq Files \X Jobs
    BY DEF Init, Idle
  <2>4. /\ ref \in [Files -> SUBSET (Files \X Jobs)]
        /\ feed \in [Files -> {"closed", "opened", "started"}]
        /\ ran \subseteq Files \X Jobs
        /\ faults \in 0 .. MaxFaults /\ disturbed \subseteq Jobs
    BY AssetsAssumption DEF Init
  <2> QED BY <2>1, <2>2, <2>3, <2>4 DEF InRange
<1>2. ASSUME IInv, InRange, [Next]_vars PROVE InRange'
  <2>0. Typed
    BY <1>2 DEF IInv
  <2>1. ASSUME NEW j \in Jobs, Loading(j) PROVE InRange'
    BY <1>2, <2>0, <2>1, LoadingInRange
  <2>2. ASSUME NEW j \in Jobs, Die(j) PROVE InRange'
    <3>1. \A i \in Jobs : job'[i].found \subseteq Files \X Jobs
      BY <1>2, <2>0, <2>2, DieEnds DEF InRange
    <3>2. faults' \in 0 .. MaxFaults /\ disturbed' \subseteq Jobs
      BY <1>2, <2>2, AssetsAssumption DEF Die, InRange
    <3> QED BY <1>2, <2>2, <3>1, <3>2 DEF Die, server, InRange
  <2>3. ASSUME NEW j \in Jobs, NEW action \in Programs, Start(j, action) PROVE InRange'
    <3>1. \A i \in Jobs : job'[i].found \subseteq Files \X Jobs
      <4>1. job'[j].found = {} /\ \A i \in Jobs : i # j => job'[i] = job[i]
        BY <2>0, <2>3, StartGoesOn
      <4> QED BY <1>2, <4>1 DEF InRange
    <3>2. disturbed' \subseteq Jobs
      BY <1>2, <2>3 DEF Start, InRange, Running
    <3> QED BY <1>2, <2>3, <3>1, <3>2 DEF Start, server, InRange
  <2>4. ASSUME NEW a \in Agents, Edit(a) PROVE InRange'
    BY <1>2, <2>4 DEF Edit, InRange
  <2>5. CASE UNCHANGED vars
    BY <1>2, <2>5 DEF vars, server, history, InRange
  <2> QED BY <1>2, <2>1, <2>2, <2>3, <2>4, <2>5 DEF Next
<1> QED BY <1>1, <1>2, Invariance, PTL DEF Spec

-----------------------------------------------------------------------------
(* How often an agent can list a tool or skill.                            *)

(* The job has still to give g to agent a, if it is g's file or will come  *)
(* to it.                                                                  *)
Ahead(J, a, g) ==
  \/ J.at = "idle"
  \/ g \in Coming(J)
  \/ g \in Files /\ J.file = g /\ a \in J.adds \cup {J.agent}

Behind(a, g) == {j \in Jobs : ~Ahead(job[j], a, g)}
Count(a, g)  == Cardinality(Behind(a, g))

(* Each job lengthens an agent's list by a tool or skill at most once, and *)
(* a copy is no longer than the list.                                      *)
ListsAreShort ==
  /\ \A a \in Agents, g \in Gear : lists[a][g] <= 1 + Count(a, g)
  /\ \A j \in Jobs, a \in Agents, g \in Gear :
       job[j].agent = a => job[j].held[g] <= 1 + Count(a, g)

(* A job does not come to a file again. *)
LEMMA FileIsNotComing ==
  ASSUME NEW J, JobIsGood(J), J.at \in Calls \ {"list"}
  PROVE  J.file \notin Coming(J) /\ J.file \in Files
<1>1. /\ J.action \in Actions /\ J.loader \in 1 .. Len(main(J.action))
      /\ J.file \in FilesOf(J.action, J.loader) \ J.todo
  BY DEF JobIsGood
<1>2. J.file \notin Later(J)
  <2> SUFFICES ASSUME NEW k \in J.loader + 1 .. Len(main(J.action)),
                      J.file \in FilesOf(J.action, k)
               PROVE  FALSE
    BY DEF Later
  <2>1. main(J.action)[k].dir = main(J.action)[J.loader].dir
    BY <1>1 DEF FilesOf
  <2>2. k \in 1 .. Len(main(J.action)) /\ k # J.loader
    BY <1>1
  <2> QED BY <1>1, <2>1, <2>2, DirsAreApart
<1> QED BY <1>1, <1>2 DEF Coming, FilesOf

(* What is to come grows only when a job starts. *)
LEMMA StaysComing ==
  ASSUME NEW J, NEW K, Stays(J, K) PROVE Coming(K) = Coming(J)
  BY DEF Stays, Coming, Later

LEMMA AheadShrinks ==
  ASSUME NEW J, NEW K, Stays(J, K) \/ GoesOn(J, K, Coming(J)),
         NEW a \in Agents, NEW g \in Gear, Ahead(K, a, g)
  PROVE  Ahead(J, a, g)
<1>1. a # NoFile /\ NoFile \notin Files
  BY NamesAreApart
<1>2. CASE Stays(J, K)
  <2>1. Coming(K) = Coming(J)
    BY <1>2, StaysComing
  <2> QED BY <1>1, <1>2, <2>1 DEF Stays, Ahead, Calls
<1>3. CASE GoesOn(J, K, Coming(J))
  <2>1. CASE K.at = "done" /\ K.file = NoFile
    BY <1>1, <2>1 DEF Ahead, Coming, Calls
  <2>2. CASE K.at = "list" /\ K.file = NoFile /\ Coming(K) = Coming(J)
    BY <1>1, <2>2 DEF Ahead
  <2>3. CASE /\ K.at \in Calls \ {"list"} /\ K.file \in Coming(J)
             /\ Coming(K) = Coming(J) \ {K.file}
    BY <2>3 DEF Ahead, Calls
  <2> QED BY <1>3, <2>1, <2>2, <2>3 DEF GoesOn
<1> QED BY <1>2, <1>3

LEMMA CountGrows ==
  ASSUME NEW a, NEW g, Behind(a, g) \subseteq Behind(a, g)'
  PROVE  Count(a, g) \in Nat /\ Count(a, g)' \in Nat /\ Count(a, g) <= Count(a, g)'
<1>1. IsFiniteSet(Jobs) /\ Behind(a, g) \subseteq Jobs /\ Behind(a, g)' \subseteq Jobs
  <2>1. 1 \in Int /\ MaxJobs \in Int
    BY AssetsAssumption
  <2>2. IsFiniteSet(Jobs)
    BY <2>1, FS_Interval DEF Jobs
  <2> QED BY <2>2 DEF Behind
<1>2. IsFiniteSet(Behind(a, g)) /\ IsFiniteSet(Behind(a, g)')
  BY <1>1, FS_Subset
<1>3. Cardinality(Behind(a, g)) <= Cardinality(Behind(a, g)')
  BY <1>2, FS_Subset
<1> QED BY <1>2, <1>3, FS_CardinalityType DEF Count

LEMMA CountGrowsStrictly ==
  ASSUME NEW a, NEW g, Behind(a, g) \subseteq Behind(a, g)',
         NEW j \in Behind(a, g)', j \notin Behind(a, g)
  PROVE  /\ Count(a, g) \in Nat /\ Count(a, g)' \in Nat
         /\ Count(a, g) + 1 <= Count(a, g)'
<1>1. IsFiniteSet(Jobs) /\ Behind(a, g) \subseteq Jobs /\ Behind(a, g)' \subseteq Jobs
  <2>1. 1 \in Int /\ MaxJobs \in Int
    BY AssetsAssumption
  <2>2. IsFiniteSet(Jobs)
    BY <2>1, FS_Interval DEF Jobs
  <2> QED BY <2>2 DEF Behind
<1>2. IsFiniteSet(Behind(a, g)) /\ IsFiniteSet(Behind(a, g)')
  BY <1>1, FS_Subset
<1>3. /\ Cardinality(Behind(a, g)) <= Cardinality(Behind(a, g)')
      /\ Cardinality(Behind(a, g)) # Cardinality(Behind(a, g)')
  BY <1>2, FS_Subset
<1> QED BY <1>2, <1>3, FS_CardinalityType DEF Count

(* After a call nobody has more ahead of them. *)
LEMMA MovedCounts ==
  ASSUME Typed, NEW j \in Jobs, Moved(j), NEW a \in Agents, NEW g \in Gear
  PROVE  /\ Behind(a, g) \subseteq Behind(a, g)'
         /\ Count(a, g) \in Nat /\ Count(a, g)' \in Nat /\ Count(a, g) <= Count(a, g)'
<1>1. \A i \in Jobs : Ahead(job'[i], a, g) => Ahead(job[i], a, g)
  BY AheadShrinks DEF Moved
<1>2. Behind(a, g)' = {i \in Jobs : ~Ahead(job'[i], a, g)}
  BY DEF Behind
<1>3. Behind(a, g) \subseteq Behind(a, g)'
  BY <1>1, <1>2 DEF Behind
<1> QED BY <1>3, CountGrows

LEMMA ShortListsKept ==
  ASSUME Typed, ListsAreShort, NEW j \in Jobs, Moved(j),
         \A a \in Agents, g \in Gear :
           lists'[a][g] \in Nat /\ lists'[a][g] <= 1 + Count(a, g)',
         \/ job'[j].agent = NoFile
         \/ job'[j].agent \in Agents /\ job'[j].held = lists[job'[j].agent]
  PROVE  ListsAreShort'
<1> SUFFICES ASSUME NEW i \in Jobs, NEW a \in Agents, NEW g \in Gear, job'[i].agent = a
             PROVE  job'[i].held[g] <= 1 + Count(a, g)'
  BY Zenon DEF ListsAreShort
<1>1. a # NoFile
  BY NamesAreApart
<1>2. job'[i].held[g] \in Nat /\ job'[i].held[g] <= 1 + Count(a, g)
  <2>1. CASE i # j
    <3>1. job'[i] = job[i]
      BY <2>1 DEF Moved
    <3>2. job[i] \in JobRecords
      BY DEF Typed
    <3> QED BY <1>1, <3>1, <3>2, NamesAreApart DEF ListsAreShort, JobRecords
  <2>2. CASE i = j
    <3>1. a \in Agents /\ job'[i].held = lists[a]
      BY <1>1, <2>2
    <3> QED BY <3>1 DEF ListsAreShort, Typed
  <2> QED BY <2>1, <2>2
<1>3. Count(a, g) \in Nat /\ Count(a, g)' \in Nat /\ Count(a, g) <= Count(a, g)'
  BY <1>2, MovedCounts
<1>4. PICK n : n = Count(a, g)'
  OBVIOUS
<1>5. job'[i].held[g] <= 1 + n
  BY <1>2, <1>3, <1>4
<1> QED BY <1>4, <1>5

(* The same, for a call that adds nothing to any list. *)
LEMMA NoListGrows ==
  ASSUME Typed, ListsAreShort, NEW j \in Jobs, Moved(j),
         \A a \in Agents, g \in Gear : lists'[a][g] = lists[a][g] \/ lists'[a][g] \in {0, 1},
         \/ job'[j].agent = NoFile
         \/ job'[j].agent \in Agents /\ job'[j].held = lists[job'[j].agent]
  PROVE  ListsAreShort'
<1>1. ASSUME NEW a \in Agents, NEW g \in Gear
      PROVE  lists'[a][g] \in Nat /\ lists'[a][g] <= 1 + Count(a, g)'
  <2>1. Count(a, g) \in Nat /\ Count(a, g)' \in Nat /\ Count(a, g) <= Count(a, g)'
    BY MovedCounts
  <2>2. PICK n : n = Count(a, g)'
    OBVIOUS
  <2>3. lists[a][g] \in Nat /\ lists[a][g] <= 1 + Count(a, g)
    BY DEF Typed, ListsAreShort
  <2>4. lists'[a][g] \in Nat /\ lists'[a][g] <= 1 + n
    BY <2>1, <2>2, <2>3
  <2> QED BY <2>2, <2>4
<1> QED BY <1>1, ShortListsKept

(* A job that stores an agent has given it its file. *)
LEMMA SetIsBehind ==
  ASSUME Typed, NEW j \in Jobs, NEW ok \in BOOLEAN, Set(j, ok), NEW a, a = job[j].agent,
         NEW f, f = job[j].file
  PROVE  Ahead(job[j], a, f) /\ ~Ahead(job'[j], a, f)
<1> DEFINE J == job[j]
<1>1. /\ JobIsGood(J) /\ J.at = "set" /\ J.at \in Calls \ {"list"}
      /\ J.agent \in Asked(J.file) \ J.adds /\ a # NoFile
  BY DEF Typed, Set, Call, JobIsGood, Calls
<1>2. f \in Files /\ f \notin Coming(J) /\ f # NoFile
  BY <1>1, FileIsNotComing, NamesAreApart
<1>3. Ahead(J, a, f)
  BY <1>2 DEF Ahead
<1>4. CASE J.adds # {}
  <2>1. /\ Stays(J, job'[j]) /\ job'[j].agent = NoFile /\ job'[j].adds = J.adds
        /\ job'[j].at = "get"
    BY <1>4, SetMoves
  <2>2. Coming(job'[j]) = Coming(J)
    BY <2>1, StaysComing
  <2> QED BY <1>1, <1>2, <1>3, <2>1, <2>2 DEF Ahead
<1>5. CASE J.adds = {}
  <2>1. GoesOn(J, job'[j], Coming(J))
    BY <1>1, <1>5, SetMoves, ProceedGoesOn
  <2> QED BY <1>2, <1>3, <2>1 DEF GoesOn, Ahead, Coming, Calls
<1> QED BY <1>4, <1>5

LEMMA SetKeepsListsShort ==
  ASSUME Typed, ListsAreShort, NEW j \in Jobs, NEW ok \in BOOLEAN, Set(j, ok)
  PROVE  ListsAreShort'
<1> DEFINE J == job[j]
<1>1. /\ JobIsGood(J) /\ J \in JobRecords /\ J.at = "set" /\ J.agent \in Agents
      /\ J.agent # NoFile /\ J.file \in Files
  BY NamesAreApart DEF Typed, Set, Call, JobIsGood, Calls, JobRecords, FilesOf
<1>2. Moved(j) /\ job'[j].agent = NoFile
  BY SetMoves
<1>3. lists' = lists \/ lists' = [lists EXCEPT ![J.agent] = NewLists(J)]
  BY DEF Set
<1>4. ASSUME NEW a \in Agents, NEW g \in Gear
      PROVE  lists'[a][g] \in Nat /\ lists'[a][g] <= 1 + Count(a, g)'
  <2>1. /\ Behind(a, g) \subseteq Behind(a, g)'
        /\ Count(a, g) \in Nat /\ Count(a, g)' \in Nat /\ Count(a, g) <= Count(a, g)'
    BY <1>2, MovedCounts
  <2>2. PICK m, n : m = Count(a, g) /\ n = Count(a, g)'
    OBVIOUS
  <2>3. lists[a][g] \in Nat /\ lists[a][g] <= 1 + m
    BY <2>2 DEF Typed, ListsAreShort
  <2>4. CASE lists'[a][g] = lists[a][g]
    BY <2>1, <2>2, <2>3, <2>4
  <2>5. CASE a = J.agent /\ lists'[a][g] = NewLists(J)[g]
    <3>1. J.held[g] \in Nat /\ J.held[g] <= 1 + m
      BY <1>1, <2>2, <2>5 DEF ListsAreShort, JobRecords
    <3>2. \/ NewLists(J)[g] \in {0, 1, J.held[g], lists[a][g]}
          \/ g = J.file /\ NewLists(J)[g] = J.held[g] + 1
      BY <2>5 DEF NewLists
    <3>3. CASE NewLists(J)[g] \in {0, 1, J.held[g], lists[a][g]}
      BY <2>1, <2>2, <2>3, <2>5, <3>1, <3>3
    <3>4. CASE g = J.file /\ NewLists(J)[g] = J.held[g] + 1
      <4>1. Ahead(job[j], a, g) /\ ~Ahead(job'[j], a, g)
        BY <2>5, <3>4, SetIsBehind
      <4>2. j \in Behind(a, g)' /\ j \notin Behind(a, g)
        BY <4>1 DEF Behind
      <4>3. m + 1 <= n
        BY <2>1, <2>2, <4>2, CountGrowsStrictly
      <4> QED BY <2>1, <2>2, <2>5, <3>1, <3>4, <4>3
    <3> QED BY <3>2, <3>3, <3>4
  <2>6. lists'[a][g] = lists[a][g] \/ (a = J.agent /\ lists'[a][g] = NewLists(J)[g])
    BY <1>3 DEF Typed
  <2> QED BY <2>4, <2>5, <2>6
<1> QED BY <1>2, <1>4, ShortListsKept

LEMMA LoadingKeepsListsShort ==
  ASSUME Typed, ListsAreShort, NEW j \in Jobs, Loading(j) PROVE ListsAreShort'
<1>0. job[j].at \in Calls \ {"set"} => job[j].agent = NoFile
  BY DEF Typed, JobIsGood
<1>1. CASE List(j)
  <2>1. Moved(j) /\ job'[j].agent = NoFile
    BY <1>1, ListMoves DEF GoesOn
  <2>2. lists' = lists
    BY <1>1 DEF List, server
  <2> QED BY <2>1, <2>2, NoListGrows
<1>2. CASE Search(j)
  <2>1. Moved(j) /\ job'[j].agent = NoFile
    BY <1>2, SearchMoves
  <2>2. lists' = lists
    BY <1>2 DEF Search, server
  <2> QED BY <2>1, <2>2, NoListGrows
<1>3. CASE Get(j)
  <2>1. /\ Moved(j) /\ job'[j].agent \in job[j].adds
        /\ job'[j].held = lists[job'[j].agent]
    BY <1>3, GetMoves
  <2>2. lists' = lists
    BY <1>3 DEF Get, server
  <2>3. job'[j].agent \in Agents
    BY <2>1, NamesAreApart DEF Typed, JobRecords
  <2> QED BY <2>1, <2>2, <2>3, NoListGrows
<1>4. CASE run_workflow(j)
  <2>1. Moved(j) /\ job'[j].agent = NoFile
    BY <1>4, RunMoves
  <2>2. lists' = lists
    BY <1>4 DEF run_workflow, server
  <2> QED BY <2>1, <2>2, NoListGrows
<1>12. ASSUME NEW ok \in BOOLEAN, Launch(j, ok) PROVE ListsAreShort'
  <2>1. job[j].at = "launch" /\ Proceed(j) /\ lists' = lists
    BY <1>12 DEF Launch, Call
  <2>2. Moved(j) /\ job'[j].agent = NoFile
    BY <2>1, ProceedGoesOn DEF GoesOn, Calls
  <2> QED BY <2>1, <2>2, NoListGrows
<1>5. ASSUME NEW ok \in BOOLEAN, Put(j, ok) PROVE ListsAreShort'
  <2>1. job[j].at = "put" /\ Proceed(j) /\ lists' = lists
    BY <1>5 DEF Put, Call
  <2>2. Moved(j) /\ job'[j].agent = NoFile
    BY <2>1, ProceedGoesOn DEF GoesOn, Calls
  <2> QED BY <2>1, <2>2, NoListGrows
<1>6. ASSUME NEW ok \in BOOLEAN, Delete(j, ok) PROVE ListsAreShort'
  <2>1. Moved(j) /\ job'[j].agent = NoFile
    BY <1>6, DeleteMoves
  <2>2. lists' = lists
    BY <1>6 DEF Delete
  <2> QED BY <2>1, <2>2, NoListGrows
<1>7. ASSUME NEW ok \in BOOLEAN, Remove(j, ok) PROVE ListsAreShort'
  <2>1. job[j].at = "remove" /\ Goto(j, "post")
    BY <1>7 DEF Remove, Call
  <2>2. Moved(j) /\ job'[j].agent = NoFile
    BY <1>0, <2>1, GotoStays DEF Calls
  <2>3. lists' \in {[a \in Agents |-> [lists[a] EXCEPT ![job[j].file] = 0]],
                    [lists EXCEPT ![job[j].file] = NoGear], lists}
    BY <1>7, Zenon DEF Remove
  <2>4. \A a \in Agents, g \in Gear : lists'[a][g] = lists[a][g] \/ lists'[a][g] \in {0, 1}
    <3>1. lists \in [Agents -> [Gear -> Nat]]
      BY DEF Typed
    <3>2. CASE lists' = [a \in Agents |-> [lists[a] EXCEPT ![job[j].file] = 0]]
      BY <3>1, <3>2
    <3>3. CASE lists' = [lists EXCEPT ![job[j].file] = NoGear]
      BY <3>1, <3>3 DEF NoGear
    <3> QED BY <2>3, <3>2, <3>3
  <2> QED BY <2>2, <2>4, NoListGrows
<1>8. ASSUME NEW ok \in BOOLEAN, Post(j, ok) PROVE ListsAreShort'
  <2>1. job[j].at = "post" /\ AfterPost(j)
    BY <1>8 DEF Post, Call
  <2>2. Moved(j) /\ job'[j].agent = NoFile
    BY <2>1, AfterPostGoesOn
  <2> DEFINE new == [g \in Gear |-> IF g \in Listed[job[j].file] THEN 1 ELSE 0]
  <2>3. lists' = lists \/ lists' = [lists EXCEPT ![job[j].file] = new]
    BY <1>8 DEF Post
  <2>4. \A a \in Agents, g \in Gear : lists'[a][g] = lists[a][g] \/ lists'[a][g] \in {0, 1}
    BY <2>3 DEF Typed
  <2> QED BY <2>2, <2>4, NoListGrows
<1>9. ASSUME NEW ok \in BOOLEAN, Open(j, ok) PROVE ListsAreShort'
  <2>1. job[j].at = "open" /\ Goto(j, "start") /\ lists' = lists
    BY <1>9 DEF Open, Call
  <2>2. Moved(j) /\ job'[j].agent = NoFile
    BY <1>0, <2>1, GotoStays DEF Calls
  <2> QED BY <2>1, <2>2, NoListGrows
<1>10. ASSUME NEW ok \in BOOLEAN, StartFeed(j, ok) PROVE ListsAreShort'
  <2>1. job[j].at = "start" /\ Proceed(j) /\ lists' = lists
    BY <1>10 DEF StartFeed, Call
  <2>2. Moved(j) /\ job'[j].agent = NoFile
    BY <2>1, ProceedGoesOn DEF GoesOn, Calls
  <2> QED BY <2>1, <2>2, NoListGrows
<1>11. ASSUME NEW ok \in BOOLEAN, Set(j, ok) PROVE ListsAreShort'
  BY <1>11, SetKeepsListsShort
<1> QED BY <1>1, <1>2, <1>3, <1>4, <1>5, <1>6, <1>7, <1>8, <1>9, <1>10, <1>11, <1>12
  DEF Loading

(* A step that leaves every list and copy no longer, and nobody with more  *)
(* ahead.                                                                  *)
LEMMA ShortListsStand ==
  ASSUME Typed, ListsAreShort,
         \A a \in Agents, g \in Gear :
           /\ lists'[a][g] = lists[a][g] \/ lists'[a][g] = 1
           /\ Behind(a, g) \subseteq Behind(a, g)',
         \A i \in Jobs : job'[i] = job[i] \/ job'[i].agent = NoFile
  PROVE  ListsAreShort'
<1>1. ASSUME NEW a \in Agents, NEW g \in Gear PROVE lists'[a][g] <= 1 + Count(a, g)'
  <2>1. Count(a, g) \in Nat /\ Count(a, g)' \in Nat /\ Count(a, g) <= Count(a, g)'
    BY CountGrows
  <2>2. PICK n : n = Count(a, g)'
    OBVIOUS
  <2>3. lists[a][g] \in Nat /\ lists[a][g] <= 1 + Count(a, g)
    BY DEF Typed, ListsAreShort
  <2>4. lists'[a][g] <= 1 + n
    BY <2>1, <2>2, <2>3
  <2> QED BY <2>2, <2>4
<1>2. ASSUME NEW i \in Jobs, NEW a \in Agents, NEW g \in Gear, job'[i].agent = a
      PROVE  job'[i].held[g] <= 1 + Count(a, g)'
  <2>1. a # NoFile
    BY NamesAreApart
  <2>2. job'[i] = job[i] /\ job[i].agent = a /\ job[i].held[g] \in Nat
    BY <1>2, <2>1 DEF Typed, JobRecords
  <2>3. Count(a, g) \in Nat /\ Count(a, g)' \in Nat /\ Count(a, g) <= Count(a, g)'
    BY <2>2, CountGrows
  <2>4. PICK n : n = Count(a, g)'
    OBVIOUS
  <2>5. job[i].held[g] <= 1 + n
    BY <2>1, <2>2, <2>3, <2>4 DEF ListsAreShort
  <2> QED BY <2>1, <2>2, <2>4, <2>5
<1> QED BY <1>1, <1>2 DEF ListsAreShort

LEMMA ShortListsInvariant == Spec => []ListsAreShort
<1>1. Init => ListsAreShort
  <2> SUFFICES ASSUME Init PROVE ListsAreShort
    OBVIOUS
  <2>1. \A a \in Agents, g \in Gear : lists[a][g] = 0
    BY DEF Init, NoGear
  <2>2. \A j \in Jobs : job[j].agent = NoFile
    BY DEF Init, Idle
  <2>3. \A a, g : Count(a, g) \in Nat
    <3> TAKE a, g
    <3>1. IsFiniteSet(Jobs) /\ Behind(a, g) \subseteq Jobs
      BY AssetsAssumption, FS_Interval DEF Jobs, Behind
    <3>2. IsFiniteSet(Behind(a, g))
      BY <3>1, FS_Subset
    <3> QED BY <3>2, FS_CardinalityType DEF Count
  <2> QED BY <2>1, <2>2, <2>3, NamesAreApart DEF ListsAreShort
<1>2. ASSUME IInv, ListsAreShort, [Next]_vars PROVE ListsAreShort'
  <2>0. Typed
    BY <1>2 DEF IInv
  <2>1. ASSUME NEW j \in Jobs, Loading(j) PROVE ListsAreShort'
    BY <1>2, <2>0, <2>1, LoadingKeepsListsShort
  <2>2. ASSUME NEW j \in Jobs, Die(j) PROVE ListsAreShort'
    <3>1. /\ \A i \in Jobs : i # j => job'[i] = job[i]
          /\ job'[j].at = "dead" /\ job'[j].agent = NoFile /\ job'[j].file = NoFile
      BY <2>0, <2>2, DieEnds
    <3>2. \A a \in Agents, g \in Gear : ~Ahead(job'[j], a, g)
      BY <3>1, NamesAreApart DEF Ahead, Coming, Calls
    <3>3. \A a \in Agents, g \in Gear : Behind(a, g) \subseteq Behind(a, g)'
      BY <3>1, <3>2 DEF Behind
    <3>4. lists' = lists
      BY <2>2 DEF Die, server
    <3> QED BY <1>2, <2>0, <3>1, <3>3, <3>4, ShortListsStand
  <2>3. ASSUME NEW j \in Jobs, NEW action \in Programs, Start(j, action)
        PROVE  ListsAreShort'
    <3>1. /\ job[j] = Idle /\ job'[j].agent = NoFile
          /\ \A i \in Jobs : i # j => job'[i] = job[i]
      BY <2>0, <2>3, StartGoesOn DEF GoesOn
    <3>2. \A a \in Agents, g \in Gear : Ahead(job[j], a, g)
      BY <3>1 DEF Ahead, Idle
    <3>3. \A a \in Agents, g \in Gear : Behind(a, g) \subseteq Behind(a, g)'
      BY <3>1, <3>2 DEF Behind
    <3>4. lists' = lists
      BY <2>3 DEF Start, server
    <3> QED BY <1>2, <2>0, <3>1, <3>3, <3>4, ShortListsStand
  <2>4. ASSUME NEW a \in Agents, Edit(a) PROVE ListsAreShort'
    <3>1. job' = job /\ lists' = [lists EXCEPT ![a][Foreign] = 1]
      BY <2>4 DEF Edit
    <3>2. \A b \in Agents, g \in Gear : lists'[b][g] = lists[b][g] \/ lists'[b][g] = 1
      BY <2>0, <3>1 DEF Typed
    <3>3. \A b \in Agents, g \in Gear : Behind(b, g) \subseteq Behind(b, g)'
      BY <3>1 DEF Behind
    <3> QED BY <1>2, <2>0, <3>1, <3>2, <3>3, ShortListsStand
  <2>5. CASE UNCHANGED vars
    BY <1>2, <2>5 DEF vars, server, history, ListsAreShort, Count, Behind
  <2> QED BY <1>2, <2>1, <2>2, <2>3, <2>4, <2>5 DEF Next
<1> QED BY <1>1, <1>2, Invariance, PTL DEF Spec

(* assets/app.py: every variable keeps its range; an agent lists a tool or *)
(* skill no oftener than jobs were started and once more, a search leads   *)
(* to a deletion only when it found something, a job holds a copy of an    *)
(* agent exactly between fetching and storing it.                          *)
THEOREM TypesHold == Spec => []TypeOK
<1>1. IInv /\ InRange /\ ListsAreShort => TypeOK
  <2> SUFFICES ASSUME IInv, InRange, ListsAreShort PROVE TypeOK
    OBVIOUS
  <2>1. ASSUME NEW a \in Agents, NEW g \in Gear PROVE lists[a][g] \in 0 .. MaxJobs + 1
    <3>1. IsFiniteSet(Jobs) /\ Behind(a, g) \subseteq Jobs /\ Cardinality(Jobs) = MaxJobs
      BY AssetsAssumption, FS_Interval DEF Jobs, Behind
    <3>2. IsFiniteSet(Behind(a, g)) /\ Cardinality(Behind(a, g)) <= Cardinality(Jobs)
      BY <3>1, FS_Subset
    <3>3. Count(a, g) \in Nat /\ Count(a, g) <= MaxJobs
      BY <3>1, <3>2, FS_CardinalityType DEF Count
    <3> QED BY <3>3, AssetsAssumption DEF IInv, Typed, ListsAreShort
  <2>2. lists \in [Agents -> [Gear -> 0 .. MaxJobs + 1]]
    <3>1. lists \in [Agents -> [Gear -> Nat]]
      BY DEF IInv, Typed
    <3> QED BY <2>1, <3>1
  <2>3. \A j \in Jobs :
          /\ job[j].at \in Calls \cup {"idle", "done", "dead"}
          /\ job[j].at = "delete" => job[j].found # {}
          /\ job[j].at = "set" <=> job[j].agent # NoFile
    BY DEF IInv, Typed, JobIsGood, JobRecords
  <2>4. safe \subseteq Shared
    BY DEF IInv, Typed
  <2> QED BY <2>2, <2>3, <2>4 DEF TypeOK, InRange
<1> QED BY <1>1, Invariance, RangeInvariant, ShortListsInvariant, PTL

-----------------------------------------------------------------------------
(* Which jobs were alone.                                                  *)

(* Jobs are started in their order, and one that was not disturbed had no  *)
(* other beside it: those before it had ended, none was started meanwhile. *)
InOrder ==
  /\ \A j \in Jobs : job[j].at = "idle" => job[j] = Idle
  /\ \A j \in Jobs, i \in Jobs : i < j /\ job[j].at # "idle" => job[i].at # "idle"

Alone ==
  \A j \in Jobs \ disturbed, i \in Jobs : job[j].at # "idle" =>
    /\ i < j => job[i].at \in {"done", "dead"}
    /\ i > j /\ job[j].at \in Calls => job[i].at = "idle"

LEMMA MovedRuns ==
  ASSUME NEW j \in Jobs, Moved(j)
  PROVE  job[j].at \in Calls /\ job'[j].at \in Calls \cup {"done"}
  BY DEF Moved, Stays, GoesOn, Calls

LEMMA LoadingMoves ==
  ASSUME Typed, NEW j \in Jobs, Loading(j)
  PROVE  Moved(j) /\ disturbed \subseteq disturbed'
<1>1. CASE List(j)
  BY <1>1, ListMoves DEF List, Searched
<1>2. CASE Search(j)
  <2>1. disturbed \subseteq disturbed'
    BY <1>2 DEF Search, Searched
  <2> QED BY <1>2, <2>1, SearchMoves
<1>3. CASE Get(j)
  <2>1. disturbed \subseteq disturbed'
    BY <1>3 DEF Get, history
  <2> QED BY <1>3, <2>1, GetMoves
<1>4. CASE run_workflow(j)
  <2>1. disturbed \subseteq disturbed'
    BY <1>4 DEF run_workflow, Searched
  <2> QED BY <1>4, <2>1, RunMoves
<1>5. ASSUME NEW at, NEW ok \in BOOLEAN, Call(j, at, ok) PROVE disturbed \subseteq disturbed'
  BY <1>5 DEF Call
<1>6. ASSUME NEW ok \in BOOLEAN, Put(j, ok) PROVE Moved(j) /\ disturbed \subseteq disturbed'
  BY <1>5, <1>6, ProceedGoesOn DEF Put, Call, Calls
<1>7. ASSUME NEW ok \in BOOLEAN, Delete(j, ok) PROVE Moved(j) /\ disturbed \subseteq disturbed'
  <2>1. Call(j, "delete", ok)
    BY <1>7 DEF Delete
  <2> QED BY <1>5, <1>7, <2>1, DeleteMoves
<1>8. ASSUME NEW ok \in BOOLEAN, Remove(j, ok) PROVE Moved(j) /\ disturbed \subseteq disturbed'
  <2>1. Call(j, "remove", ok) /\ Goto(j, "post")
    BY <1>8 DEF Remove
  <2> QED BY <1>5, <2>1, GotoStays DEF Call, Calls
<1>9. ASSUME NEW ok \in BOOLEAN, Post(j, ok) PROVE Moved(j) /\ disturbed \subseteq disturbed'
  <2>1. Call(j, "post", ok) /\ AfterPost(j)
    BY <1>9 DEF Post
  <2> QED BY <1>5, <2>1, AfterPostGoesOn DEF Call
<1>10. ASSUME NEW ok \in BOOLEAN, Open(j, ok) PROVE Moved(j) /\ disturbed \subseteq disturbed'
  <2>1. Call(j, "open", ok) /\ Goto(j, "start")
    BY <1>10 DEF Open
  <2> QED BY <1>5, <2>1, GotoStays DEF Call, Calls
<1>11. ASSUME NEW ok \in BOOLEAN, StartFeed(j, ok)
       PROVE  Moved(j) /\ disturbed \subseteq disturbed'
  BY <1>5, <1>11, ProceedGoesOn DEF StartFeed, Call, Calls
<1>12. ASSUME NEW ok \in BOOLEAN, Set(j, ok) PROVE Moved(j) /\ disturbed \subseteq disturbed'
  <2>1. Call(j, "set", ok)
    BY <1>12 DEF Set
  <2> QED BY <1>5, <1>12, <2>1, SetMoves
<1>13. ASSUME NEW ok \in BOOLEAN, Launch(j, ok) PROVE Moved(j) /\ disturbed \subseteq disturbed'
  BY <1>5, <1>13, ProceedGoesOn DEF Launch, Call, Calls
<1> QED BY <1>1, <1>2, <1>3, <1>4, <1>6, <1>7, <1>8, <1>9, <1>10, <1>11, <1>12, <1>13
  DEF Loading

LEMMA StartRuns ==
  ASSUME Typed, NEW j \in Jobs, NEW action \in Programs, Start(j, action)
  PROVE  /\ job[j].at = "idle" /\ job'[j].at \in Calls \cup {"done"}
         /\ \A i \in Jobs : i # j => job'[i] = job[i]
         /\ \A i \in Jobs : i < j => job[i] # Idle
         /\ disturbed' = IF Running = {} THEN disturbed ELSE disturbed \cup Running \cup {j}
<1>1. /\ job[j] = Idle /\ \A i \in Jobs : i # j => job'[i] = job[i]
      /\ job'[j].at \in Calls \cup {"done"}
  BY StartGoesOn DEF GoesOn, Calls
<1>2. \A i \in Jobs : i < j => i \in 1 .. j - 1
  BY AssetsAssumption DEF Jobs
<1>3. \A i \in 1 .. j - 1 : job[i] # Idle
  BY DEF Start
<1>4. Idle.at = "idle"
  BY DEF Idle
<1> QED BY <1>1, <1>2, <1>3, <1>4 DEF Start

LEMMA OrderInvariant == Spec => [](InOrder /\ Alone)
<1>1. Init => InOrder /\ Alone
  BY DEF Init, InOrder, Alone, Idle
<1>2. ASSUME IInv, InOrder, Alone, [Next]_vars PROVE InOrder' /\ Alone'
  <2>0. Typed /\ "idle" \notin Calls /\ "done" \notin Calls /\ "dead" \notin Calls
    BY <1>2 DEF IInv, Calls
  <2>00. /\ \A i \in Jobs : i \in Nat
         /\ \A i \in Jobs : job[i].at \in Calls \cup {"idle", "done", "dead"}
    BY <2>0, JobsAreNumbers DEF Typed, JobRecords
  <2>1. ASSUME NEW j \in Jobs, job[j].at \in Calls, \A i \in Jobs : i # j => job'[i] = job[i],
               job'[j].at \in Calls \cup {"done", "dead"}, disturbed \subseteq disturbed'
        PROVE  InOrder' /\ Alone'
    <3>1. InOrder'
      BY <1>2, <2>0, <2>1 DEF InOrder
    <3>2. Alone'
      <4> SUFFICES ASSUME NEW k \in Jobs, k \notin disturbed', NEW i \in Jobs,
                          job'[k].at # "idle"
                   PROVE  /\ i < k => job'[i].at \in {"done", "dead"}
                          /\ i > k /\ job'[k].at \in Calls => job'[i].at = "idle"
        BY DEF Alone
      <4>1. k \in Jobs \ disturbed /\ job[k].at # "idle"
        BY <2>0, <2>1
      <4>2. /\ i < k => job[i].at \in {"done", "dead"}
            /\ i > k /\ job[k].at \in Calls => job[i].at = "idle"
            /\ j < k => job[j].at \in {"done", "dead"}
            /\ j > k /\ job[k].at \in Calls => job[j].at = "idle"
        BY <1>2, <4>1 DEF Alone
      <4> QED BY <2>0, <2>00, <2>1, <4>2
    <3> QED BY <3>1, <3>2
  <2>2. ASSUME NEW j \in Jobs, Loading(j) PROVE InOrder' /\ Alone'
    <3>1. Moved(j) /\ disturbed \subseteq disturbed'
      BY <2>0, <2>2, LoadingMoves
    <3>2. job[j].at \in Calls /\ job'[j].at \in Calls \cup {"done"}
      BY <3>1, MovedRuns
    <3> QED BY <2>1, <3>1, <3>2 DEF Moved
  <2>3. ASSUME NEW j \in Jobs, Die(j) PROVE InOrder' /\ Alone'
    <3>1. /\ job[j].at \in Calls /\ job'[j].at = "dead"
          /\ \A i \in Jobs : i # j => job'[i] = job[i]
      BY <2>0, <2>3, DieEnds
    <3>2. disturbed \subseteq disturbed'
      BY <2>3 DEF Die
    <3> QED BY <2>1, <3>1, <3>2
  <2>4. ASSUME NEW j \in Jobs, NEW action \in Programs, Start(j, action)
        PROVE  InOrder' /\ Alone'
    <3>1. /\ job[j].at = "idle" /\ job'[j].at \in Calls \cup {"done"}
          /\ \A i \in Jobs : i # j => job'[i] = job[i]
          /\ \A i \in Jobs : i < j => job[i].at # "idle"
          /\ disturbed' = IF Running = {} THEN disturbed ELSE disturbed \cup Running \cup {j}
      BY <1>2, <2>0, <2>4, StartRuns DEF InOrder
    <3>2. InOrder'
      <4>1. \A k \in Jobs : job'[k].at = "idle" => job'[k] = Idle
        BY <1>2, <2>0, <3>1 DEF InOrder
      <4>2. ASSUME NEW k \in Jobs, NEW i \in Jobs, i < k, job'[k].at # "idle"
            PROVE  job'[i].at # "idle"
        BY <1>2, <2>0, <3>1, <4>2 DEF InOrder
      <4> QED BY <4>1, <4>2 DEF InOrder
    <3>3. Alone'
      <4> SUFFICES ASSUME NEW k \in Jobs, k \notin disturbed', NEW i \in Jobs,
                          job'[k].at # "idle"
                   PROVE  /\ i < k => job'[i].at \in {"done", "dead"}
                          /\ i > k /\ job'[k].at \in Calls => job'[i].at = "idle"
        BY DEF Alone
      <4>1. CASE k = j
        <5>1. Running = {}
          BY <3>1, <4>1
        <5>2. \A h \in Jobs : job[h].at \notin Calls
          BY <5>1 DEF Running
        <5>3. i > j => job[i].at = "idle"
          BY <1>2, <3>1 DEF InOrder
        <5> QED BY <2>00, <3>1, <4>1, <5>2, <5>3
      <4>2. CASE k # j
        <5>1. job'[k] = job[k] /\ k < j
          BY <1>2, <2>00, <3>1, <4>2 DEF InOrder
        <5>2. k \in Jobs \ disturbed /\ job[k].at \notin Calls
          BY <2>0, <3>1, <5>1 DEF Running
        <5>3. i < k => job[i].at \in {"done", "dead"}
          BY <1>2, <5>1, <5>2 DEF Alone
        <5> QED BY <2>00, <3>1, <5>1, <5>2, <5>3
      <4> QED BY <4>1, <4>2
    <3> QED BY <3>2, <3>3
  <2>5. ASSUME NEW a \in Agents, Edit(a) PROVE InOrder' /\ Alone'
    BY <1>2, <2>5 DEF Edit, InOrder, Alone
  <2>6. CASE UNCHANGED vars
    BY <1>2, <2>6 DEF vars, history, InOrder, Alone
  <2> QED BY <1>2, <2>2, <2>3, <2>4, <2>5, <2>6 DEF Next
<1> QED BY <1>1, <1>2, Invariance, PTL DEF Spec

-----------------------------------------------------------------------------
(* What the server keeps to, whoever loads.                                *)

(* An id of the file's choosing is there once, and an agent lists nothing  *)
(* but what it was to be given.                                            *)
PinnedOnce == \A f \in Pinned \cap Files : \A i, k \in store[f] : i = k

Granted(a, g) ==
  \/ g = Foreign
  \/ a \in Files /\ g \in Listed[a]
  \/ g \in Files /\ a \in AddTo[g]

OnlyGranted ==
  /\ \A a \in Agents, g \in Gear : lists[a][g] > 0 => Granted(a, g)
  /\ \A j \in Jobs, a \in Agents, g \in Gear :
       job[j].agent = a /\ job[j].held[g] > 0 => Granted(a, g)

(* What a call does to the objects. *)
StoreMoves(j) ==
  \/ store' = store
  \/ \E f \in Files : \E s \in SUBSET store[f] : store' = [store EXCEPT ![f] = s]
  \/ /\ job[j].file \in Files
     /\ \/ store' = [store EXCEPT ![job[j].file] = {j}]
        \/ /\ ~Taken(job[j].file)
           /\ store' = [store EXCEPT ![job[j].file] = store[job[j].file] \cup {j}]

(* What it does to the lists, and to the job's copy. *)
ListsMove(j) ==
  /\ \A a \in Agents, g \in Gear :
       \/ lists'[a][g] \in {0, lists[a][g]}
       \/ a \in Files /\ g \in Listed[a]
       \/ job[j].agent = a /\ job[j].at = "set" /\ lists'[a][g] = NewLists(job[j])[g]
  /\ \/ job'[j].agent = NoFile
     \/ job'[j].agent \in Agents /\ job'[j].held = lists[job'[j].agent]

LEMMA LoadingDoes ==
  ASSUME Typed, NEW j \in Jobs, Loading(j) PROVE StoreMoves(j) /\ ListsMove(j)
<1>0. /\ job[j].at \in Calls \ {"set"} => job[j].agent = NoFile
      /\ job[j].at \in Calls \ {"list"} => job[j].file \in Files
      /\ lists \in [Agents -> [Gear -> Nat]] /\ store \in [Files -> SUBSET Nat]
  BY UnderWay DEF Typed, JobIsGood
<1>1. ASSUME lists' = lists PROVE \A a \in Agents, g \in Gear : lists'[a][g] \in {0, lists[a][g]}
  BY <1>1
<1>2. CASE List(j)
  <2>1. job'[j].agent = NoFile
    BY <1>2, ListMoves DEF GoesOn
  <2> QED BY <1>2, <2>1 DEF List, server, StoreMoves, ListsMove
<1>3. CASE Search(j)
  <2>1. job'[j].agent = NoFile
    BY <1>3, SearchMoves
  <2> QED BY <1>3, <2>1 DEF Search, server, StoreMoves, ListsMove
<1>4. CASE Get(j)
  <2>1. job'[j].agent \in job[j].adds /\ job'[j].held = lists[job'[j].agent]
    BY <1>4, GetMoves
  <2>2. job'[j].agent \in Agents
    BY <2>1, NamesAreApart DEF Typed, JobRecords
  <2>3. store' = store /\ lists' = lists
    BY <1>4 DEF Get, server
  <2> QED BY <2>1, <2>2, <2>3 DEF StoreMoves, ListsMove
<1>5. CASE run_workflow(j)
  <2>1. job'[j].agent = NoFile
    BY <1>5, RunMoves
  <2> QED BY <1>5, <2>1 DEF run_workflow, server, StoreMoves, ListsMove
<1>13. ASSUME NEW ok \in BOOLEAN, Launch(j, ok) PROVE StoreMoves(j) /\ ListsMove(j)
  <2>1. job[j].at = "launch" /\ Proceed(j) /\ UNCHANGED <<store, lists>>
    BY <1>13 DEF Launch, Call
  <2>2. job'[j].agent = NoFile
    BY <2>1, ProceedGoesOn DEF GoesOn, Calls
  <2> QED BY <2>1, <2>2 DEF StoreMoves, ListsMove
<1>6. ASSUME NEW ok \in BOOLEAN, Put(j, ok) PROVE StoreMoves(j) /\ ListsMove(j)
  <2>1. /\ job[j].at = "put" /\ Proceed(j) /\ UNCHANGED lists
        /\ store' = store \/ store' = [store EXCEPT ![job[j].file] = {j}]
    BY <1>6 DEF Put, Call, StoreIs
  <2>2. job'[j].agent = NoFile /\ job[j].file \in Files
    BY <1>0, <2>1, ProceedGoesOn DEF GoesOn, Calls
  <2> QED BY <2>1, <2>2 DEF StoreMoves, ListsMove
<1>7. ASSUME NEW ok \in BOOLEAN, Delete(j, ok) PROVE StoreMoves(j) /\ ListsMove(j)
  <2>1. PICK o \in job[j].found :
          store' = IF ok THEN [store EXCEPT ![o[1]] = @ \ {o[2]}] ELSE store
    BY <1>7, DeleteMoves
  <2>2. o[1] \in Files /\ job'[j].agent = NoFile
    BY <1>7, DeleteMoves DEF Typed, JobRecords
  <2>3. lists' = lists
    BY <1>7 DEF Delete
  <2>4. store' = store \/ \E s \in SUBSET store[o[1]] : store' = [store EXCEPT ![o[1]] = s]
    BY <2>1
  <2> QED BY <2>2, <2>3, <2>4 DEF StoreMoves, ListsMove
<1>8. ASSUME NEW ok \in BOOLEAN, Remove(j, ok) PROVE StoreMoves(j) /\ ListsMove(j)
  <2>1. /\ job[j].at = "remove" /\ Goto(j, "post")
        /\ store' = store \/ store' = [store EXCEPT ![job[j].file] = {}]
    BY <1>8 DEF Remove, Call
  <2>2. job'[j].agent = NoFile /\ job[j].file \in Files
    BY <1>0, <2>1, GotoStays DEF Calls
  <2>3. lists' \in {[a \in Agents |-> [lists[a] EXCEPT ![job[j].file] = 0]],
                    [lists EXCEPT ![job[j].file] = NoGear], lists}
    BY <1>8, Zenon DEF Remove
  <2>4. \A a \in Agents, g \in Gear : lists'[a][g] \in {0, lists[a][g]}
    <3>1. CASE lists' = [a \in Agents |-> [lists[a] EXCEPT ![job[j].file] = 0]]
      BY <1>0, <3>1
    <3>2. CASE lists' = [lists EXCEPT ![job[j].file] = NoGear]
      BY <1>0, <3>2 DEF NoGear
    <3> QED BY <2>3, <3>1, <3>2
  <2>5. {} \in SUBSET store[job[j].file]
    OBVIOUS
  <2> QED BY <2>1, <2>2, <2>4, <2>5 DEF StoreMoves, ListsMove
<1>9. ASSUME NEW ok \in BOOLEAN, Post(j, ok) PROVE StoreMoves(j) /\ ListsMove(j)
  <2> DEFINE f   == job[j].file
             new == [g \in Gear |-> IF g \in Listed[f] THEN 1 ELSE 0]
  <2>1. /\ job[j].at = "post" /\ AfterPost(j)
        /\ \/ store' = store
           \/ ~Taken(f) /\ store' = [store EXCEPT ![f] = store[f] \cup {j}]
        /\ lists' = lists \/ lists' = [lists EXCEPT ![f] = new]
    BY <1>9 DEF Post, Call, StoreIs
  <2>2. job'[j].agent = NoFile /\ f \in Files
    BY <1>0, <2>1, AfterPostGoesOn DEF Calls
  <2>3. \A a \in Agents, g \in Gear :
          lists'[a][g] \in {0, lists[a][g]} \/ (a \in Files /\ g \in Listed[a])
    BY <1>0, <2>1, <2>2
  <2> HIDE DEF f, new
  <2> QED BY <2>1, <2>2, <2>3 DEF StoreMoves, ListsMove, f
<1>10. ASSUME NEW ok \in BOOLEAN, Open(j, ok) PROVE StoreMoves(j) /\ ListsMove(j)
  <2>1. job[j].at = "open" /\ Goto(j, "start") /\ UNCHANGED <<store, lists>>
    BY <1>10 DEF Open, Call
  <2>2. job'[j].agent = NoFile
    BY <1>0, <2>1, GotoStays DEF Calls
  <2> QED BY <2>1, <2>2 DEF StoreMoves, ListsMove
<1>11. ASSUME NEW ok \in BOOLEAN, StartFeed(j, ok) PROVE StoreMoves(j) /\ ListsMove(j)
  <2>1. job[j].at = "start" /\ Proceed(j) /\ UNCHANGED <<store, lists>>
    BY <1>11 DEF StartFeed, Call
  <2>2. job'[j].agent = NoFile
    BY <2>1, ProceedGoesOn DEF GoesOn, Calls
  <2> QED BY <2>1, <2>2 DEF StoreMoves, ListsMove
<1>12. ASSUME NEW ok \in BOOLEAN, Set(j, ok) PROVE StoreMoves(j) /\ ListsMove(j)
  <2>1. job[j].at = "set" /\ job'[j].agent = NoFile
    BY <1>12, SetMoves
  <2>2. /\ store' = store
        /\ lists' = lists \/ lists' = [lists EXCEPT ![job[j].agent] = NewLists(job[j])]
    BY <1>12 DEF Set
  <2>3. \A a \in Agents, g \in Gear :
          \/ lists'[a][g] \in {0, lists[a][g]}
          \/ job[j].agent = a /\ lists'[a][g] = NewLists(job[j])[g]
    BY <1>0, <2>2
  <2> QED BY <2>1, <2>2, <2>3 DEF StoreMoves, ListsMove
<1> QED BY <1>2, <1>3, <1>4, <1>5, <1>6, <1>7, <1>8, <1>9, <1>10, <1>11, <1>12, <1>13
  DEF Loading

LEMMA KeepsInvariant == Spec => [](PinnedOnce /\ OnlyGranted)
<1>1. Init => PinnedOnce /\ OnlyGranted
  <2> SUFFICES ASSUME Init PROVE PinnedOnce /\ OnlyGranted
    OBVIOUS
  <2>1. PinnedOnce
    BY DEF Init, PinnedOnce
  <2>2. \A a \in Agents, g \in Gear : lists[a][g] = 0
    BY DEF Init, NoGear
  <2>3. \A j \in Jobs, a \in Agents : job[j].agent # a
    BY NamesAreApart DEF Init, Idle
  <2> QED BY <2>1, <2>2, <2>3 DEF OnlyGranted
<1>2. ASSUME IInv, PinnedOnce, OnlyGranted, [Next]_vars PROVE PinnedOnce' /\ OnlyGranted'
  <2>0. Typed
    BY <1>2 DEF IInv
  <2>1. ASSUME NEW j \in Jobs, Loading(j) PROVE PinnedOnce' /\ OnlyGranted'
    <3>1. StoreMoves(j) /\ ListsMove(j) /\ Moved(j)
      BY <2>0, <2>1, LoadingDoes, LoadingMoves
    <3>2. PinnedOnce'
      <4>1. ASSUME NEW f \in Files, NEW s \in SUBSET store[f], store' = [store EXCEPT ![f] = s]
            PROVE  PinnedOnce'
        BY <1>2, <2>0, <4>1 DEF PinnedOnce, Typed
      <4>2. ASSUME NEW f \in Files, store' = [store EXCEPT ![f] = {j}] PROVE PinnedOnce'
        BY <1>2, <2>0, <4>2 DEF PinnedOnce, Typed
      <4>3. ASSUME NEW f \in Files, ~Taken(f), store' = [store EXCEPT ![f] = store[f] \cup {j}]
            PROVE  PinnedOnce'
        <5>1. f \in Pinned => store[f] \cup {j} = {j}
          BY <4>3 DEF Taken
        <5> QED BY <1>2, <2>0, <4>3, <5>1 DEF PinnedOnce, Typed
      <4>4. CASE store' = store
        BY <1>2, <4>4 DEF PinnedOnce
      <4> QED BY <3>1, <4>1, <4>2, <4>3, <4>4 DEF StoreMoves
    <3>3. ASSUME NEW a \in Agents, NEW g \in Gear, lists'[a][g] > 0 PROVE Granted(a, g)
      <4>1. CASE lists'[a][g] \in {0, lists[a][g]} \/ (a \in Files /\ g \in Listed[a])
        BY <1>2, <3>3, <4>1 DEF OnlyGranted, Granted
      <4>2. CASE job[j].agent = a /\ job[j].at = "set" /\ lists'[a][g] = NewLists(job[j])[g]
        <5>1. a \in Asked(job[j].file) /\ job[j].file \in Files
          BY <2>0, <4>2 DEF Typed, JobIsGood, FilesOf, Calls
        <5>2. /\ job[j].held[g] > 0 => Granted(a, g)
              /\ lists[a][g] > 0 => Granted(a, g)
          BY <1>2, <4>2 DEF OnlyGranted
        <5>3. CASE job[j].file \in Shared
          BY <3>3, <4>2, <5>1, <5>2, <5>3 DEF NewLists, Asked, Granted
        <5>4. CASE job[j].file \notin Shared
          BY <3>3, <4>2, <5>1, <5>2, <5>4 DEF NewLists, Asked, Granted
        <5> QED BY <5>3, <5>4
      <4> QED BY <3>1, <4>1, <4>2 DEF ListsMove
    <3>4. ASSUME NEW i \in Jobs, NEW a \in Agents, NEW g \in Gear, job'[i].agent = a,
                 job'[i].held[g] > 0
          PROVE  Granted(a, g)
      <4>1. CASE i # j
        BY <1>2, <3>1, <3>4, <4>1 DEF OnlyGranted, Moved
      <4>2. CASE i = j
        BY <1>2, <3>1, <3>4, <4>2, NamesAreApart DEF OnlyGranted, ListsMove
      <4> QED BY <4>1, <4>2
    <3> QED BY <3>2, <3>3, <3>4 DEF OnlyGranted
  <2>2. ASSUME UNCHANGED <<store, lists>>,
               \A i \in Jobs : job'[i] = job[i] \/ job'[i].agent = NoFile
        PROVE  PinnedOnce' /\ OnlyGranted'
    <3>1. PinnedOnce'
      BY <1>2, <2>2 DEF PinnedOnce
    <3> QED BY <1>2, <2>2, <3>1, NamesAreApart DEF OnlyGranted
  <2>3. ASSUME NEW j \in Jobs, Die(j) PROVE PinnedOnce' /\ OnlyGranted'
    <3>1. job'[j].agent = NoFile /\ \A i \in Jobs : i # j => job'[i] = job[i]
      BY <2>0, <2>3, DieEnds
    <3> QED BY <2>2, <2>3, <3>1 DEF Die, server
  <2>4. ASSUME NEW j \in Jobs, NEW action \in Programs, Start(j, action)
        PROVE  PinnedOnce' /\ OnlyGranted'
    <3>1. job'[j].agent = NoFile /\ \A i \in Jobs : i # j => job'[i] = job[i]
      BY <2>0, <2>4, StartGoesOn DEF GoesOn
    <3> QED BY <2>2, <2>4, <3>1 DEF Start, server
  <2>5. ASSUME NEW a \in Agents, Edit(a) PROVE PinnedOnce' /\ OnlyGranted'
    <3>1. UNCHANGED <<store, job>> /\ lists' = [lists EXCEPT ![a][Foreign] = 1]
      BY <2>5 DEF Edit
    <3>2. \A b \in Agents, g \in Gear : lists'[b][g] = lists[b][g] \/ g = Foreign
      BY <2>0, <3>1 DEF Typed
    <3>3. PinnedOnce'
      BY <1>2, <3>1 DEF PinnedOnce
    <3> QED BY <1>2, <3>1, <3>2, <3>3 DEF OnlyGranted, Granted
  <2>6. CASE UNCHANGED vars
    BY <1>2, <2>6 DEF vars, server, PinnedOnce, OnlyGranted
  <2> QED BY <1>2, <2>1, <2>3, <2>4, <2>5, <2>6 DEF Next
<1> QED BY <1>1, <1>2, Invariance, PTL DEF Spec

-----------------------------------------------------------------------------
(* How far a full load has come.                                           *)

LoadFiles == {f \in Files : \E k \in 1 .. Len(Load) : f \in FilesOf("load", k)}

(* What UndisturbedLoadIsComplete asks of each file, and of the agents     *)
(* among them.                                                             *)
IsThere(f, j) ==
  /\ FirstIs(f, "put") \/ FirstIs(f, "remove") => store[f] = {j}
  /\ FirstIs(f, "post") => IF f \in Pinned THEN Cardinality(store[f]) = 1 ELSE j \in store[f]

NameIsThere(f, j) ==
  \E g \in Same(f) : store[g] = {j} /\ \A h \in Same(f) \ {g} : store[h] = {}

IsWired(f) ==
  /\ \A o \in ref[f] : o[1] \in Files /\ Dir[o[1]] = "workflows" /\ o[2] \in store[o[1]]
  /\ \A w \in Files : Dir[w] = "workflows" /\ Name[w] = Name[f] => ref[f] # {}

IsListed(f) == \A a \in AddTo[f] : lists[a][f] > 0

IsEquipped(a) ==
  \A g \in Gear \ {Foreign} :
    lists[a][g] = IF g \in Listed[a] \/ a \in AddTo[g] THEN 1 ELSE 0

HasRun(f, j) == \E g \in Same(f) : <<g, j>> \in ran

FileIsDone(f, j) ==
  /\ f \notin Shared => IsThere(f, j)
  /\ Dir[f] = "tools" => IsWired(f)
  /\ Dir[f] \in {"tools", "skills"} => IsListed(f)
  /\ Dir[f] = "agents" => IsEquipped(f)
  /\ Dir[f] = "ml" => feed[f] = "started"
  /\ Dir[f] = "workflows" /\ "superdemo-authrun" \in Tags[f] => HasRun(f, j)

(* Done are the files that the load is past; a name only when the file in  *)
(* hand has another.                                                       *)
PastIsDone(rest, file, j) ==
  \A f \in LoadFiles \ (rest \cup {file}) :
    /\ FileIsDone(f, j)
    /\ FirstIs(f, "search") /\ (file = NoFile \/ Key(f) # Key(file)) => NameIsThere(f, j)

(* Of the file in hand, what its POST has made. *)
Made(f, j) ==
  /\ IsThere(f, j)
  /\ FirstIs(f, "search") => store[f] = {j} /\ \A h \in Same(f) \ {f} : store[h] = {}
  /\ Dir[f] = "tools" => IsWired(f)

InHand(J, j) ==
  LET f == J.file
  IN  /\ J.at \in {"list", "done"} => f = NoFile
      /\ J.at \in {"search", "delete", "remove", "post"} => J.adds = Asked(f)
      /\ J.at = "delete" => \A g \in Same(f) : \A i \in store[g] : <<g, i>> \in J.found
      /\ J.at = "post" /\ FirstIs(f, "search") => \A g \in Same(f) : store[g] = {}
      /\ J.at = "post" /\ FirstIs(f, "remove") => store[f] = {}
      /\ J.at \in {"open", "start", "run", "launch", "get", "set"} /\ f \notin Shared =>
           Made(f, j)
      /\ J.at = "launch" => J.found = {<<f, j>>}
      /\ J.at = "start" => feed[f] \in {"opened", "started"}
      /\ J.at \in {"get", "set"} /\ f \notin Shared =>
           \A a \in AddTo[f] \ (J.adds \cup {J.agent}) : lists[a][f] > 0
      /\ J.at = "set" => \A g \in Gear \ {Foreign} : J.held[g] = lists[J.agent][g]
      /\ f # NoFile /\ Dir[f] = "tools" => J.found = Objects("workflows")

Progress(J, j) == PastIsDone(Coming(J), J.file, j) /\ InHand(J, j)

(* An undisturbed load goes well, as long as no job is started after it.   *)
LoadGoesWell ==
  \A j \in Jobs \ disturbed, J \in JobRecords :
    /\ J = job[j] /\ J.action = "load" /\ J.at \in Calls \cup {"done"}
    /\ \A i \in Jobs : i > j => job[i].at = "idle"
    => Progress(J, j)

-----------------------------------------------------------------------------
(* The places of the files in a full load.                                 *)

LEMMA LoaderIsDirAndFirst ==
  \A l \in Loaders : l = Loader(l.dir, l.first)
  BY DEF Loaders, Loader, load_ilm, load_workflows, load_connectors, load_ai_indexes,
     load_agent_tools, load_skills, load_agents, load_synthetics, load_aliases,
     load_dataviews, load_ml, enable_rules, load_rules, load_objects, load_dashboards,
     load_slos, load_streams, load_esql_views, load_field_definitions,
     load_esql_data_sources, load_esql_data_sets, load_new_knowledge

LEMMA FirstsAreFor ==
  ASSUME NEW l \in Loaders
  PROVE  /\ l.dir = "workflows" => l.first = "search"
         /\ l.dir = "ml" => l.first = "post"
         /\ l.first = "put" => l.dir \notin {"agents", "tools", "skills", "ml", "workflows"}
  BY DEF Loaders, Loader, load_ilm, load_workflows, load_connectors, load_ai_indexes,
     load_agent_tools, load_skills, load_agents, load_synthetics, load_aliases,
     load_dataviews, load_ml, enable_rules, load_rules, load_objects, load_dashboards,
     load_slos, load_streams, load_esql_views, load_field_definitions,
     load_esql_data_sources, load_esql_data_sets, load_new_knowledge

(* The first call for a file is its loader's. *)
LEMMA FirstOfFile ==
  ASSUME NEW k \in 1 .. Len(Load), NEW f \in FilesOf("load", k), NEW first
  PROVE  /\ FirstIs(f, first) <=> Load[k].first = first
         /\ Rank[Dir[f]] = k /\ f \in Files /\ f \in LoadFiles /\ Load[k] \in Loaders
         /\ Dir[f] = Load[k].dir
<1>1. /\ f \in Files /\ Dir[f] = Load[k].dir /\ Load[k] \in Loaders
      /\ Len(Load) = 21 /\ \A l \in 1 .. 21 : Rank[Load[l].dir] = l /\ Load[l] \in Loaders
  <2>1. f \in Files /\ Dir[f] = Load[k].dir
    BY DEF FilesOf, main
  <2>2. Len(Load) = 21 /\ \A l \in 1 .. 21 : Rank[Load[l].dir] = l
    BY LoadInOrder
  <2>3. \A l \in 1 .. Len(Load) : Load[l] \in Loaders
    BY FullLoad
  <2> QED BY <2>1, <2>2, <2>3
<1>2. ASSUME Load[k].first = first PROVE FirstIs(f, first)
  <2>1. Load[k] = Loader(Load[k].dir, Load[k].first)
    BY <1>1, LoaderIsDirAndFirst
  <2>2. Load[k] = Loader(Dir[f], first)
    BY <1>1, <1>2, <2>1
  <2> QED BY <2>2 DEF FirstIs
<1>3. ASSUME FirstIs(f, first) PROVE Load[k].first = first
  <2>1. PICK l \in 1 .. Len(Load) : Load[l] = Loader(Dir[f], first)
    BY <1>3 DEF FirstIs
  <2>2. Load[l].dir = Dir[f] /\ Load[l].first = first
    BY <2>1 DEF Loader
  <2>3. l = k
    BY <1>1, <2>2
  <2> QED BY <2>2, <2>3
<1> QED BY <1>1, <1>2, <1>3 DEF LoadFiles

(* Of the files of a load, by their directory. *)
LEMMA FirstByDir ==
  ASSUME NEW f \in LoadFiles
  PROVE  /\ f \in Files
         /\ \A x, y : FirstIs(f, x) /\ FirstIs(f, y) => x = y
         /\ Dir[f] \in {"tools", "skills", "agents"} <=> FirstIs(f, "remove")
         /\ Dir[f] = "workflows" => FirstIs(f, "search")
         /\ Dir[f] = "ml" => FirstIs(f, "post")
         /\ FirstIs(f, "put") => Dir[f] \notin {"agents", "tools", "skills", "ml", "workflows"}
         /\ FirstIs(f, "put") \/ FirstIs(f, "post") \/ FirstIs(f, "search")
            \/ FirstIs(f, "remove")
<1>1. PICK k \in 1 .. Len(Load) : f \in FilesOf("load", k)
  BY DEF LoadFiles
<1>2. /\ \A first : FirstIs(f, first) <=> Load[k].first = first
      /\ f \in Files /\ Dir[f] = Load[k].dir /\ Load[k] \in Loaders
  BY <1>1, FirstOfFile
<1>3. Load[k].first \in FirstCalls
  <2>1. "load" \in Actions /\ main("load") = Load
    BY DEF Actions, main
  <2> QED BY <2>1, FirstIsACall
<1> QED BY <1>2, <1>3, FirstsAreFor, LoadersAreFor DEF FirstCalls

LEMMA DirsOfLoad ==
  ASSUME NEW f \in Files
  PROVE  /\ Dir[f] \in {"workflows", "tools", "skills", "agents", "ml"} => f \in LoadFiles
         /\ \A first : FirstIs(f, first) => f \in LoadFiles
<1>1. /\ Load[2].dir = "workflows" /\ Load[5].dir = "tools" /\ Load[6].dir = "skills"
      /\ Load[7].dir = "agents" /\ Load[11].dir = "ml" /\ Len(Load) = 21
  BY DEF Load, Loader, load_workflows, load_agent_tools, load_skills, load_agents, load_ml
<1>2. \A k \in 1 .. Len(Load) : Dir[f] = Load[k].dir => f \in LoadFiles
  BY DEF LoadFiles, FilesOf, main
<1>3. ASSUME NEW first, FirstIs(f, first) PROVE f \in LoadFiles
  <2>1. PICK k \in 1 .. Len(Load) : Load[k] = Loader(Dir[f], first)
    BY <1>3 DEF FirstIs
  <2> QED BY <1>2, <2>1 DEF Loader
<1> QED BY <1>1, <1>2, <1>3

(* A load that is at a file is past the directories before its own, and    *)
(* comes to those after it.                                                *)
LEMMA PlaceInLoad ==
  ASSUME NEW J \in JobRecords, JobIsGood(J), J.action = "load", J.at \in Calls
  PROVE  /\ J.loader \in 1 .. 21
         /\ J.at # "list" => /\ J.file \in LoadFiles /\ Rank[Dir[J.file]] = J.loader
                             /\ \A first : FirstIs(J.file, first)
                                            <=> main(J.action)[J.loader].first = first
         /\ \A f \in LoadFiles : f \notin Coming(J) => Rank[Dir[f]] <= J.loader
         /\ \A f \in LoadFiles : Rank[Dir[f]] < J.loader => f \notin Coming(J)
<1>1. /\ main(J.action) = Load /\ J.loader \in 1 .. Len(Load) /\ Len(Load) = 21
      /\ J.todo \subseteq FilesOf("load", J.loader)
      /\ J.at # "list" => J.file \in FilesOf("load", J.loader)
  BY LoadInOrder DEF JobIsGood, main
<1>2. J.at # "list" => /\ J.file \in LoadFiles /\ Rank[Dir[J.file]] = J.loader
                       /\ \A first : FirstIs(J.file, first)
                                      <=> main(J.action)[J.loader].first = first
  BY <1>1, FirstOfFile
<1>3. ASSUME NEW f \in LoadFiles
      PROVE  /\ f \notin Coming(J) => Rank[Dir[f]] <= J.loader
             /\ Rank[Dir[f]] < J.loader => f \notin Coming(J)
  <2>1. PICK k \in 1 .. Len(Load) : f \in FilesOf("load", k)
    BY DEF LoadFiles
  <2>2. Rank[Dir[f]] = k /\ f \in Files
    BY <2>1, FirstOfFile
  <2>3. \A l \in 1 .. Len(Load) : f \in FilesOf("load", l) => l = k
    BY <2>2, FirstOfFile
  <2>6. /\ Coming(J) = J.todo \cup Later(J)
        /\ Later(J) = {g \in Files : \E l \in J.loader + 1 .. Len(Load) : g \in FilesOf("load", l)}
    BY <1>1 DEF Coming, Later
  <2>4. f \in Coming(J) => k >= J.loader
    <3>1. ASSUME f \in J.todo PROVE k = J.loader
      BY <1>1, <2>3, <3>1
    <3>2. ASSUME f \in Later(J) PROVE k > J.loader
      <4>1. PICK l \in J.loader + 1 .. Len(Load) : f \in FilesOf("load", l)
        BY <2>6, <3>2
      <4>2. l \in 1 .. Len(Load) /\ l > J.loader
        BY <1>1
      <4> QED BY <2>3, <4>1, <4>2
    <3> QED BY <1>1, <2>6, <3>1, <3>2
  <2>5. k > J.loader => f \in Coming(J)
    <3>1. k > J.loader => k \in J.loader + 1 .. Len(Load)
      BY <1>1
    <3> QED BY <2>1, <2>2, <2>6, <3>1
  <2> QED BY <1>1, <2>2, <2>4, <2>5
<1> QED BY <1>1, <1>2, <1>3

-----------------------------------------------------------------------------
(* What a call leaves alone.                                               *)

(* A call for file f changes the objects of f, and of its name if they are *)
(* searched for, and lists only f or only on the agent f.                  *)
Framed(f) ==
  /\ \A g \in Files : store'[g] # store[g] =>
       g = f \/ (f \in Files /\ g \in Same(f) /\ FirstIs(f, "search"))
  /\ \A g \in Files \ {f} : ref'[g] = ref[g] /\ feed'[g] = feed[g]
  /\ ran \subseteq ran'
  /\ \A a \in Agents, g \in Gear \ {Foreign} : lists'[a][g] # lists[a][g] =>
       \/ Dir[f] = "agents" /\ a = f /\ (f \in Shared /\ lists[a][g] > 0 => lists'[a][g] > 0)
       \/ Dir[f] \in {"tools", "skills"} /\ g = f

LEMMA GearIsFiles ==
  /\ \A g \in Gear \ {Foreign} : g \in Files /\ Dir[g] \in {"tools", "skills"}
  /\ \A g \in Files : Dir[g] \in {"tools", "skills"} => g \in Gear \ {Foreign}
  /\ \A f \in Files : f # NoFile /\ f # Foreign
  BY NamesAreApart DEF Gear

(* What is done stays done, while the load is at another file. *)
LEMMA DoneStands ==
  ASSUME Typed, NEW J \in JobRecords, JobIsGood(J), J.action = "load", J.at \in Calls,
         J.at = "list" => J.file = NoFile, NEW j \in Jobs, NEW f \in LoadFiles,
         f \notin Coming(J), f # J.file, FileIsDone(f, j), Framed(J.file)
  PROVE  FileIsDone(f, j)'
<1> DEFINE file == J.file
<1>0. /\ f \in Files /\ \A x, y : FirstIs(f, x) /\ FirstIs(f, y) => x = y
      /\ Rank[Dir[f]] <= J.loader /\ J.loader \in 1 .. 21
      /\ file # NoFile => J.at # "list" /\ file \in LoadFiles /\ Rank[Dir[file]] = J.loader
      /\ \A g \in Files : g # NoFile
  BY FirstByDir, PlaceInLoad, GearIsFiles
<1>1. FirstIs(f, "search") \/ store'[f] = store[f]
  <2>1. CASE store'[f] # store[f]
    <3>1. f \in Same(file) /\ FirstIs(file, "search")
      BY <1>0, <2>1 DEF Framed
    <3> QED BY <3>1 DEF Same, FirstIs
  <2> QED BY <2>1
<1>2. f \notin Shared => IsThere(f, j)'
  <2>1. FirstIs(f, "search") => ~FirstIs(f, "put") /\ ~FirstIs(f, "remove") /\ ~FirstIs(f, "post")
    BY <1>0
  <2> QED BY <1>1, <2>1 DEF FileIsDone, IsThere
<1>3. Dir[f] = "tools" => IsWired(f)'
  <2> SUFFICES ASSUME Dir[f] = "tools" PROVE IsWired(f)'
    OBVIOUS
  <2>1. ref'[f] = ref[f]
    BY <1>0 DEF Framed
  <2>2. \A g \in Files : Dir[g] = "workflows" => store'[g] = store[g]
    <3> SUFFICES ASSUME NEW g \in Files, Dir[g] = "workflows", store'[g] # store[g] PROVE FALSE
      OBVIOUS
    <3>1. g = file \/ (file \in Files /\ g \in Same(file))
      BY DEF Framed
    <3>2. CASE file = NoFile
      BY <1>0, <3>1, <3>2 DEF Framed, FirstIs, Same
    <3>3. CASE file # NoFile
      <4>1. Dir[file] = "workflows"
        BY <3>1 DEF Same
      <4> QED BY <1>0, <3>3, <4>1 DEF Rank
    <3> QED BY <3>2, <3>3
  <2>3. \A o \in ref[f] : o[1] \in Files
    BY DEF FileIsDone, IsWired
  <2> QED BY <2>1, <2>2, <2>3 DEF FileIsDone, IsWired
<1>4. Dir[f] \in {"tools", "skills"} => IsListed(f)'
  <2> SUFFICES ASSUME Dir[f] \in {"tools", "skills"}, NEW a \in AddTo[f]
               PROVE  lists'[a][f] > 0
    BY DEF IsListed
  <2>1. a \in Agents /\ a \in Shared /\ f \in Gear \ {Foreign} /\ lists[a][f] > 0
    BY <1>0, AssetsAssumption, NamesAreApart, GearIsFiles DEF FileIsDone, IsListed
  <2>2. \/ lists'[a][f] = lists[a][f]
        \/ a = file /\ (file \in Shared /\ lists[a][f] > 0 => lists'[a][f] > 0)
    BY <2>1 DEF Framed
  <2> QED BY <2>1, <2>2
<1>5. Dir[f] = "agents" => IsEquipped(f)'
  <2> SUFFICES ASSUME Dir[f] = "agents", NEW g \in Gear \ {Foreign}
               PROVE  lists'[f][g] = lists[f][g]
    BY DEF FileIsDone, IsEquipped
  <2>1. f \in Agents /\ g \in Files /\ Dir[g] \in {"tools", "skills"}
    BY <1>0, GearIsFiles DEF Agents
  <2>2. lists'[f][g] # lists[f][g] => g = file
    BY <2>1 DEF Framed
  <2>3. g # file
    <3> SUFFICES ASSUME g = file PROVE FALSE
      OBVIOUS
    <3>1. Rank[Dir[g]] = J.loader
      BY <1>0, <2>1
    <3>2. Rank[Dir[g]] \in {5, 6} /\ Rank[Dir[f]] = 7
      BY <2>1 DEF Rank
    <3> QED BY <1>0, <3>1, <3>2
  <2> QED BY <2>2, <2>3
<1>6. /\ Dir[f] = "ml" => feed'[f] = "started"
      /\ Dir[f] = "workflows" /\ "superdemo-authrun" \in Tags[f] => HasRun(f, j)'
  BY <1>0 DEF FileIsDone, Framed, HasRun
<1> QED BY <1>2, <1>3, <1>4, <1>5, <1>6 DEF FileIsDone

(* So do the names, while it is at a file of another name. *)
LEMMA NamesStand ==
  ASSUME Typed, NEW j \in Jobs, NEW f \in Files, NEW file, file = NoFile \/ Key(f) # Key(file),
         NameIsThere(f, j), Framed(file)
  PROVE  NameIsThere(f, j)'
<1>1. \A g \in Same(f) : store'[g] = store[g]
  <2> SUFFICES ASSUME NEW g \in Same(f), store'[g] # store[g] PROVE FALSE
    OBVIOUS
  <2>1. g \in Files /\ Key(g) = Key(f) /\ g # NoFile
    BY GearIsFiles DEF Same, Key
  <2>2. g = file \/ (file \in Files /\ g \in Same(file) /\ FirstIs(file, "search"))
    BY <2>1 DEF Framed
  <2>3. file \in Files /\ Key(g) = Key(file)
    BY <2>1, <2>2 DEF Same, Key
  <2>4. file # NoFile
    BY <2>3, GearIsFiles
  <2> QED BY <2>1, <2>3, <2>4
<1> QED BY <1>1 DEF NameIsThere

-----------------------------------------------------------------------------
(* A step of an undisturbed load.                                          *)

(* Job j, in a full load that went well so far, goes from J to K and is    *)
(* not disturbed by it.                                                    *)
Ready(J, K, j) ==
  /\ Typed /\ Typed' /\ InRange /\ PinnedOnce /\ OnlyGranted
  /\ j \in Jobs /\ J = job[j] /\ K = job'[j] /\ j \notin disturbed'
  /\ J.action = "load" /\ J.at \in Calls /\ Progress(J, j)

LEMMA ReadyFacts ==
  ASSUME NEW J, NEW K, NEW j, Ready(J, K, j)
  PROVE  /\ JobIsGood(J) /\ J \in JobRecords /\ JobIsGood(K) /\ K \in JobRecords
         /\ J.at = "list" => J.file = NoFile
         /\ J.at # "list" => /\ J.file \in Files /\ J.file \in LoadFiles /\ J.file # NoFile
                             /\ Rank[Dir[J.file]] = J.loader
                             /\ \A first : FirstIs(J.file, first)
                                            <=> main(J.action)[J.loader].first = first
                             /\ J.file \in Same(J.file)
         /\ J.at \notin {"get", "set"} => J.file \notin Shared
         /\ CallIsInPlace(J) /\ InHand(J, j) /\ PastIsDone(Coming(J), J.file, j)
<1>1. JobIsGood(J) /\ J \in JobRecords /\ J.at \in Calls /\ J.action = "load"
  BY DEF Ready, Typed
<1>2. JobIsGood(K) /\ K \in JobRecords
  BY DEF Ready, Typed
<1>3. /\ J.at = "list" => J.file = NoFile
      /\ InHand(J, j) /\ PastIsDone(Coming(J), J.file, j)
  BY DEF Ready, Progress, InHand
<1>4. J.at # "list" => /\ J.file \in LoadFiles /\ Rank[Dir[J.file]] = J.loader
                       /\ \A first : FirstIs(J.file, first)
                                      <=> main(J.action)[J.loader].first = first
  BY <1>1, PlaceInLoad
<1>5. J.at # "list" => J.file \in Files /\ J.file # NoFile /\ J.file \in Same(J.file)
  BY <1>4, GearIsFiles DEF LoadFiles, Same
<1>6. CallIsInPlace(J) /\ (J.at \notin {"get", "set"} => J.file \notin Shared)
  BY <1>1 DEF JobIsGood
<1> QED BY <1>1, <1>2, <1>3, <1>4, <1>5, <1>6

(* What the load is past stays done. *)
LEMMA PastStands ==
  ASSUME NEW J, NEW K, NEW j, Ready(J, K, j), Framed(J.file),
         NEW rest, rest = Coming(J), NEW file, file = J.file
  PROVE  PastIsDone(rest, file, j)'
<1>1. /\ JobIsGood(J) /\ J \in JobRecords /\ (J.at = "list" => J.file = NoFile)
      /\ PastIsDone(rest, file, j)
  BY ReadyFacts
<1>2. Typed /\ j \in Jobs /\ J.action = "load" /\ J.at \in Calls
  BY DEF Ready
<1>3. ASSUME NEW f \in LoadFiles \ (rest \cup {file}) PROVE FileIsDone(f, j)'
  <2>1. FileIsDone(f, j)
    BY <1>1 DEF PastIsDone
  <2> QED BY <1>1, <1>2, <2>1, DoneStands
<1>4. ASSUME NEW f \in LoadFiles \ (rest \cup {file}), FirstIs(f, "search"),
             file = NoFile \/ Key(f) # Key(file)
      PROVE  NameIsThere(f, j)'
  <2>1. NameIsThere(f, j) /\ f \in Files
    BY <1>1, <1>4 DEF PastIsDone, LoadFiles
  <2> QED BY <1>2, <1>4, <2>1, NamesStand
<1>5. \A f : FirstIs(f, "search")' <=> FirstIs(f, "search")
  BY DEF FirstIs
<1> QED BY <1>3, <1>4 DEF PastIsDone

(* What was listed for the tools is still there. *)
LEMMA WorkflowsStand ==
  ASSUME NEW f \in LoadFiles, Dir[f] = "tools", Framed(f)
  PROVE  /\ Objects("workflows")' = Objects("workflows")
         /\ \A g \in Files : Dir[g] = "workflows" => store'[g] = store[g]
<1>1. ~FirstIs(f, "search")
  BY FirstByDir
<1>2. \A g \in Files : Dir[g] = "workflows" => store'[g] = store[g]
  BY <1>1 DEF Framed
<1> QED BY <1>2 DEF Objects

(* The job stays at its file. *)
LEMMA StayWell ==
  ASSUME NEW J, NEW K, NEW j, Ready(J, K, j), Framed(J.file), Stays(J, K), InHand(K, j)'
  PROVE  Progress(K, j)'
<1>1. PICK rest, file : rest = Coming(J) /\ file = J.file
  OBVIOUS
<1>2. PastIsDone(rest, file, j)'
  BY <1>1, PastStands
<1>3. rest = Coming(K) /\ file = K.file
  BY <1>1, StaysComing DEF Stays
<1> QED BY <1>2, <1>3 DEF Progress

(* A file that was just taken up. *)
LEMMA FreshInHand ==
  ASSUME NEW J, NEW files, NEW K \in JobRecords, JobIsGood(K), K.action = "load",
         GoesOn(J, K, files), NEW j,
         K.at \in Calls \ {"list"} /\ Dir[K.file] = "tools" => K.found = Objects("workflows")'
  PROVE  InHand(K, j)'
<1>1. CASE K.at \in {"done", "list"}
  <2>1. K.file = NoFile
    BY <1>1 DEF GoesOn, Calls
  <2> QED BY <1>1, <2>1 DEF InHand
<1>2. CASE K.at \in Calls \ {"list"}
  <2>1. /\ K.adds = Asked(K.file)
        /\ K.at = IF K.file \in Shared THEN "get" ELSE main(K.action)[K.loader].first
    BY <1>2 DEF GoesOn, Calls
  <2>2. /\ \A first : FirstIs(K.file, first) <=> main(K.action)[K.loader].first = first
        /\ K.loader \in 1 .. Len(main(K.action)) /\ K.action \in Actions
    BY <1>2, PlaceInLoad DEF JobIsGood
  <2>3. main(K.action)[K.loader].first \in FirstCalls
    BY <2>2, FirstIsACall
  <2>4. K.at = "get" => K.file \in Shared
    BY <2>1, <2>3 DEF FirstCalls
  <2>5. K.at \in {"put", "search", "remove", "post", "get"}
    BY <2>1, <2>3 DEF FirstCalls
  <2>6. K.at = "post" => ~FirstIs(K.file, "search") /\ ~FirstIs(K.file, "remove")
    BY <2>1, <2>2
  <2> QED BY <1>2, <2>1, <2>4, <2>5, <2>6 DEF InHand
<1> QED BY <1>1, <1>2 DEF GoesOn

(* It goes on to another. *)
LEMMA GoWell ==
  ASSUME NEW J, NEW K, NEW j, Ready(J, K, j), Framed(J.file), GoesOn(J, K, Coming(J)),
         J.at # "list" => /\ FileIsDone(J.file, j)'
                          /\ FirstIs(J.file, "search") => NameIsThere(J.file, j)',
         K.at \in Calls \ {"list"} /\ Dir[K.file] = "tools" => K.found = Objects("workflows")'
  PROVE  Progress(K, j)'
<1>0. /\ JobIsGood(K) /\ K \in JobRecords /\ (J.at = "list" => J.file = NoFile)
      /\ J.at # "list" => J.file \in Files
      /\ J.at \in Calls /\ K.action = "load"
  BY ReadyFacts DEF Ready, GoesOn
<1>1. PICK rest, file : rest = Coming(J) /\ file = J.file
  OBVIOUS
<1>2. PastIsDone(rest, file, j)'
  BY <1>1, PastStands
<1>3. PICK left, next : left = Coming(K) /\ next = K.file
  OBVIOUS
<1>4. PastIsDone(left, next, j)'
  <2> SUFFICES ASSUME NEW f \in LoadFiles \ (left \cup {next})
               PROVE  /\ FileIsDone(f, j)'
                      /\ FirstIs(f, "search") => NameIsThere(f, j)'
    BY DEF PastIsDone
  <2>1. f \in Files /\ f # NoFile /\ f \notin rest
    <3>1. f \in Files /\ f # NoFile
      BY GearIsFiles DEF LoadFiles
    <3>2. rest \subseteq left \cup {next}
      BY <1>1, <1>3 DEF GoesOn
    <3> QED BY <3>1, <3>2
  <2>2. CASE f = file
    <3>1. J.at # "list"
      BY <1>0, <1>1, <2>1, <2>2
    <3> QED BY <1>1, <2>2, <3>1
  <2>3. CASE f # file
    <3>1. /\ FileIsDone(f, j)'
          /\ FirstIs(f, "search") /\ (file = NoFile \/ Key(f) # Key(file)) => NameIsThere(f, j)'
      BY <1>2, <2>3, <2>1 DEF PastIsDone
    <3>2. ASSUME FirstIs(f, "search"), file # NoFile, Key(f) = Key(file)
          PROVE  NameIsThere(f, j)'
      <4>1. Dir[f] = Dir[file] /\ Name[f] = Name[file]
        BY <3>2 DEF Key
      <4>2. FirstIs(file, "search") /\ Same(f) = Same(file)
        BY <3>2, <4>1 DEF FirstIs, Same
      <4>3. J.at # "list"
        BY <1>0, <1>1, <3>2
      <4>4. NameIsThere(file, j)'
        BY <1>1, <4>2, <4>3
      <4> QED BY <4>2, <4>4 DEF NameIsThere
    <3> QED BY <3>1, <3>2
  <2> QED BY <2>2, <2>3
<1>5. InHand(K, j)'
  BY <1>0, FreshInHand
<1> QED BY <1>3, <1>4, <1>5 DEF Progress

(* It has done all there is to do for its file. *)
LEMMA ProceedWell ==
  ASSUME NEW J, NEW K, NEW j, Ready(J, K, j), Framed(J.file), J.at # "list", Proceed(j),
         FileIsDone(J.file, j)', FirstIs(J.file, "search") => NameIsThere(J.file, j)'
  PROVE  Progress(K, j)'
<1>1. /\ Typed /\ j \in Jobs /\ J = job[j] /\ K = job'[j] /\ J.at \in Calls \ {"list"}
  BY DEF Ready
<1>2. /\ GoesOn(J, K, Coming(J))
      /\ K.at \in Calls \ {"list"} /\ Dir[K.file] = "tools" =>
           Dir[J.file] = "tools" /\ K.found = J.found
  BY <1>1, ProceedGoesOn
<1>3. /\ J.file \in LoadFiles
      /\ Dir[J.file] = "tools" => J.found = Objects("workflows")
  BY ReadyFacts DEF InHand
<1>4. K.at \in Calls \ {"list"} /\ Dir[K.file] = "tools" => K.found = Objects("workflows")'
  BY <1>2, <1>3, WorkflowsStand
<1> QED BY <1>2, <1>4, GoWell

(* A step that is no fault is answered, and a search answers all there is. *)
LEMMA Answered ==
  ASSUME NEW J, NEW K, NEW j, Ready(J, K, j), NEW at, NEW ok \in BOOLEAN, Call(j, at, ok)
  PROVE  ok = TRUE /\ J.at = at
  BY DEF Ready, Call

LEMMA AllFound ==
  ASSUME NEW J, NEW K, NEW j, Ready(J, K, j), NEW dir, Searched(j, dir), NEW page \in Pages(dir)
  PROVE  page = Objects(dir)
<1>1. Objects(dir) \subseteq Files \X (0 .. MaxJobs)
  BY DEF Ready, InRange, Objects
<1>2. IsFiniteSet(Files \X (0 .. MaxJobs))
  <2>1. 0 \in Int /\ MaxJobs \in Int /\ IsFiniteSet(Files)
    BY AssetsAssumption
  <2>2. IsFiniteSet(0 .. MaxJobs)
    BY <2>1, FS_Interval
  <2> QED BY <2>1, <2>2, FS_Product
<1>3. IsFiniteSet(Objects(dir))
  BY <1>1, <1>2, FS_Subset
<1>4. Cardinality(Objects(dir)) <= PageSize
  BY DEF Ready, Searched
<1>5. page \subseteq Objects(dir) /\ Cardinality(page) = Cardinality(Objects(dir))
  BY <1>4 DEF Pages
<1> QED BY <1>3, <1>5, FS_Subset

(* Nothing happens on the server. *)
LEMMA NothingMoves ==
  ASSUME NEW f, UNCHANGED server PROVE Framed(f)
  BY DEF server, Framed

-----------------------------------------------------------------------------
(* Each call of an undisturbed load.                                       *)

LEMMA PutWell ==
  ASSUME NEW J, NEW K, NEW j, Ready(J, K, j), NEW ok \in BOOLEAN, Put(j, ok)
  PROVE  Progress(K, j)'
<1> DEFINE f == J.file
<1>1. ok = TRUE /\ J.at = "put"
  BY Answered DEF Put
<1>2. /\ f \in Files /\ f \in LoadFiles /\ FirstIs(f, "put")
  BY <1>1, ReadyFacts DEF CallIsInPlace
<1>3. /\ Dir[f] \notin {"agents", "tools", "skills", "ml", "workflows"}
      /\ ~FirstIs(f, "post") /\ ~FirstIs(f, "search")
  BY <1>2, FirstByDir
<1>4. /\ store' = [store EXCEPT ![f] = {j}] /\ UNCHANGED <<lists, ref, feed, ran>>
      /\ Proceed(j) /\ store \in [Files -> SUBSET Nat]
  BY <1>1 DEF Put, StoreIs, Ready, Typed
<1>5. Framed(f)
  BY <1>4 DEF Framed
<1>6. FileIsDone(f, j)'
  BY <1>2, <1>3, <1>4 DEF FileIsDone, IsThere, FirstIs
<1> QED BY <1>1, <1>3, <1>4, <1>5, <1>6, ProceedWell

LEMMA ListWell ==
  ASSUME NEW J, NEW K, NEW j, Ready(J, K, j), List(j)
  PROVE  Progress(K, j)'
<1>1. /\ Typed /\ j \in Jobs /\ J = job[j] /\ K = job'[j]
  BY DEF Ready
<1>2. /\ GoesOn(J, K, Coming(J)) /\ J.at = "list" /\ K.found \in Pages("workflows")
  BY <1>1, ListMoves
<1>3. K.found = Objects("workflows")
  BY <1>2, AllFound DEF List
<1>4. Framed(J.file) /\ store' = store
  BY NothingMoves DEF List, server
<1>5. K.found = Objects("workflows")'
  BY <1>3, <1>4 DEF Objects
<1> QED BY <1>2, <1>4, <1>5, GoWell

LEMMA SearchWell ==
  ASSUME NEW J, NEW K, NEW j, Ready(J, K, j), Search(j)
  PROVE  Progress(K, j)'
<1> DEFINE f == J.file
<1>1. /\ Typed /\ j \in Jobs /\ J = job[j] /\ K = job'[j]
  BY DEF Ready
<1>2. /\ Stays(J, K) /\ J.at = "search" /\ K.adds = J.adds
      /\ \E page \in Pages(Dir[f]) :
           /\ K.found = Found(j, page)
           /\ K.at = IF Found(j, page) = {} THEN "post" ELSE "delete"
  BY <1>1, SearchMoves
<1>3. /\ K.found = Found(j, Objects(Dir[f]))
      /\ K.at = IF K.found = {} THEN "post" ELSE "delete"
  <2>1. PICK page \in Pages(Dir[f]) :
          /\ K.found = Found(j, page)
          /\ K.at = IF Found(j, page) = {} THEN "post" ELSE "delete"
    BY <1>2
  <2>2. page = Objects(Dir[f])
    BY <1>1, <2>1, AllFound DEF Search
  <2> QED BY <2>1, <2>2
<1>4. /\ f \in LoadFiles /\ FirstIs(f, "search") /\ K.file = f /\ K.adds = Asked(f)
  BY <1>2, ReadyFacts DEF CallIsInPlace, InHand, Stays
<1>5. Dir[f] # "tools" /\ ~FirstIs(f, "remove") /\ f # NoFile
  <2>1. Dir[f] # "tools" /\ ~FirstIs(f, "remove")
    BY <1>4, FirstByDir
  <2> QED BY <1>2, <2>1, ReadyFacts
<1>6. \A g \in Same(f) : \A i \in store[g] : <<g, i>> \in K.found
  <2> SUFFICES ASSUME NEW g \in Same(f), NEW i \in store[g] PROVE <<g, i>> \in K.found
    OBVIOUS
  <2>1. g \in Files /\ Dir[g] = Dir[f]
    BY DEF Same
  <2>2. <<g, i>> \in Objects(Dir[f])
    BY <2>1 DEF Objects
  <2> QED BY <1>1, <1>3, <2>2 DEF Found
<1>7. Framed(f) /\ store' = store
  BY NothingMoves DEF Search, server
<1>8. InHand(K, j)'
  BY <1>3, <1>4, <1>5, <1>6, <1>7 DEF InHand, FirstIs
<1> QED BY <1>2, <1>7, <1>8, StayWell

LEMMA DeleteWell ==
  ASSUME NEW J, NEW K, NEW j, Ready(J, K, j), NEW ok \in BOOLEAN, Delete(j, ok)
  PROVE  Progress(K, j)'
<1> DEFINE f == J.file
<1>1. /\ Typed /\ j \in Jobs /\ J = job[j] /\ K = job'[j]
  BY DEF Ready
<1>2. ok = TRUE /\ J.at = "delete"
  <2>1. Call(j, "delete", ok)
    BY DEF Delete
  <2> QED BY <2>1, Answered
<1>3. /\ Stays(J, K) /\ K.adds = J.adds
      /\ \E o \in J.found :
           /\ K.found = J.found \ {o}
           /\ K.at = IF J.found = {o} THEN "post" ELSE "delete"
           /\ store' = IF ok THEN [store EXCEPT ![o[1]] = @ \ {o[2]}] ELSE store
  BY <1>1, DeleteMoves
<1>4. PICK o \in J.found :
        /\ K.found = J.found \ {o}
        /\ K.at = IF J.found = {o} THEN "post" ELSE "delete"
        /\ store' = [store EXCEPT ![o[1]] = @ \ {o[2]}]
  BY <1>2, <1>3
<1>5. /\ f \in LoadFiles /\ f \in Files /\ FirstIs(f, "search") /\ K.file = f
      /\ K.adds = Asked(f)
      /\ o[1] \in Same(f) /\ o = <<o[1], o[2]>>
      /\ \A g \in Same(f) : \A i \in store[g] : <<g, i>> \in J.found
  <2>1. \A x \in J.found : x[1] \in Same(f) /\ x = <<x[1], x[2]>>
    BY <1>2, ReadyFacts DEF JobIsGood, JobRecords
  <2> QED BY <1>2, <1>3, <2>1, ReadyFacts DEF CallIsInPlace, InHand, Stays
<1>6. Dir[f] # "tools" /\ ~FirstIs(f, "remove")
  BY <1>5, FirstByDir
<1>7. /\ store \in [Files -> SUBSET Nat] /\ UNCHANGED <<lists, ref, feed, ran>>
  BY DEF Delete, Ready, Typed
<1>8. \A g \in Same(f) : \A i \in store'[g] : <<g, i>> \in K.found
  <2> SUFFICES ASSUME NEW g \in Same(f), NEW i \in store'[g] PROVE <<g, i>> \in K.found
    OBVIOUS
  <2>1. g \in Files
    BY DEF Same
  <2>2. i \in store[g] /\ (g = o[1] => i # o[2])
    BY <1>4, <1>7, <2>1
  <2>3. <<g, i>> \in J.found /\ <<g, i>> # o
    BY <1>5, <2>2
  <2> QED BY <1>4, <2>3
<1>9. K.at = "post" => K.found = {}
  BY <1>4
<1>10. Framed(f)
  BY <1>4, <1>5, <1>7 DEF Framed
<1>11. InHand(K, j)'
  <2>1. K.at \in {"post", "delete"} /\ f # NoFile
    BY <1>2, <1>4, ReadyFacts
  <2>2. K.at = "post" => \A g \in Same(f) : store'[g] = {}
    BY <1>8, <1>9
  <2> QED BY <1>5, <1>6, <1>8, <2>1, <2>2 DEF InHand, FirstIs
<1> QED BY <1>3, <1>10, <1>11, StayWell

LEMMA RemoveWell ==
  ASSUME NEW J, NEW K, NEW j, Ready(J, K, j), NEW ok \in BOOLEAN, Remove(j, ok)
  PROVE  Progress(K, j)'
<1> DEFINE f == J.file
<1>1. /\ Typed /\ j \in Jobs /\ J = job[j] /\ K = job'[j]
  BY DEF Ready
<1>2. ok = TRUE /\ J.at = "remove"
  BY Answered DEF Remove
<1>3. /\ f \in LoadFiles /\ f \in Files /\ f # NoFile /\ FirstIs(f, "remove")
      /\ J.adds = Asked(f) /\ f \notin Shared
      /\ Dir[f] = "tools" => J.found = Objects("workflows")
  BY <1>2, ReadyFacts DEF CallIsInPlace, InHand
<1>4. Dir[f] \in {"tools", "skills", "agents"} /\ ~FirstIs(f, "search")
  BY <1>3, FirstByDir
<1>5. /\ store' = [store EXCEPT ![f] = {}] /\ UNCHANGED <<ref, feed, ran>> /\ Goto(j, "post")
      /\ store \in [Files -> SUBSET Nat] /\ lists \in [Agents -> [Gear -> Nat]]
  BY <1>1, <1>2 DEF Remove, Ready, Typed
<1>6. /\ Dir[f] = "tools" => lists' = [a \in Agents |-> [lists[a] EXCEPT ![f] = 0]]
      /\ Dir[f] = "agents" => lists' = [lists EXCEPT ![f] = NoGear]
      /\ Dir[f] = "skills" => lists' = lists
  BY <1>1, <1>2, Zenon DEF Remove
<1>7. Framed(f)
  <2>1. ASSUME NEW a \in Agents, NEW g \in Gear \ {Foreign}, lists'[a][g] # lists[a][g]
        PROVE  \/ Dir[f] = "agents" /\ a = f
               \/ Dir[f] \in {"tools", "skills"} /\ g = f
    BY <1>4, <1>5, <1>6, <2>1
  <2> QED BY <1>3, <1>5, <2>1 DEF Framed
<1>8. /\ Stays(J, K) /\ K.at = "post" /\ K.found = J.found /\ K.adds = J.adds /\ K.file = f
  BY <1>1, <1>2, <1>5, GotoStays DEF Calls, Stays
<1>9. Dir[f] = "tools" => K.found = Objects("workflows")'
  BY <1>3, <1>7, <1>8, WorkflowsStand
<1>10. InHand(K, j)'
  BY <1>3, <1>4, <1>5, <1>8, <1>9 DEF InHand, FirstIs
<1> QED BY <1>7, <1>8, <1>10, StayWell

(* What a POST leaves: the object, and a tool that calls a workflow there  *)
(* is.                                                                     *)
LEMMA PostMakes ==
  ASSUME NEW J, NEW K, NEW j, Ready(J, K, j), NEW ok \in BOOLEAN, Post(j, ok),
         NEW f, f = J.file
  PROVE  /\ Framed(f) /\ Made(f, j)' /\ AfterPost(j) /\ J.at = "post" /\ UNCHANGED feed
         /\ Dir[f] = "agents" =>
              lists' = [lists EXCEPT ![f] = [g \in Gear |-> IF g \in Listed[f] THEN 1 ELSE 0]]
<1> DEFINE made == ~Taken(f)
           new  == [g \in Gear |-> IF g \in Listed[f] THEN 1 ELSE 0]
<1>1. /\ Typed /\ InRange /\ PinnedOnce /\ j \in Jobs /\ J = job[j] /\ K = job'[j]
      /\ store \in [Files -> SUBSET Nat] /\ lists \in [Agents -> [Gear -> Nat]]
      /\ ref \in [Files -> SUBSET (Files \X Jobs)]
  BY DEF Ready, Typed, InRange
<1>2. ok = TRUE /\ J.at = "post"
  <2>1. Call(j, "post", ok)
    BY DEF Post
  <2> QED BY <2>1, Answered
<1>3. /\ store' = IF made THEN [store EXCEPT ![f] = @ \cup {j}] ELSE store
      /\ lists' = IF made /\ Dir[f] = "agents" THEN [lists EXCEPT ![f] = new] ELSE lists
      /\ AfterPost(j) /\ UNCHANGED <<feed, ran>>
  BY <1>1, <1>2 DEF Post, StoreIs
<1>4. IF made /\ Dir[f] = "tools" THEN Wire(j) ELSE ref' = ref
  BY <1>1, <1>2 DEF Post
<1>5. /\ f \in LoadFiles /\ f \in Files /\ f \notin Shared /\ ~FirstIs(f, "put")
      /\ FirstIs(f, "search") => \A g \in Same(f) : store[g] = {}
      /\ FirstIs(f, "remove") => store[f] = {}
      /\ Dir[f] = "tools" => J.found = Objects("workflows")
      /\ Rank[Dir[f]] = J.loader /\ f \in Same(f)
  BY <1>2, ReadyFacts DEF CallIsInPlace, InHand
<1>6. /\ Dir[f] \in {"tools", "skills", "agents"} <=> FirstIs(f, "remove")
      /\ \A x, y : FirstIs(f, x) /\ FirstIs(f, y) => x = y
  BY <1>5, FirstByDir
<1>7. FirstIs(f, "remove") \/ FirstIs(f, "search") => made /\ store'[f] = {j}
  BY <1>1, <1>3, <1>5 DEF Taken
<1>8. \A g \in Files : g # f => store'[g] = store[g]
  BY <1>1, <1>3
<1>9. FirstIs(f, "post") => IF f \in Pinned THEN Cardinality(store'[f]) = 1 ELSE j \in store'[f]
  <2>1. CASE f \notin Pinned
    BY <1>1, <1>3, <1>5, <2>1 DEF Taken
  <2>2. CASE f \in Pinned /\ store[f] = {}
    <3>1. store'[f] = {j}
      BY <1>1, <1>3, <1>5, <2>2 DEF Taken
    <3> QED BY <2>2, <3>1, FS_Singleton
  <2>3. CASE f \in Pinned /\ store[f] # {}
    <3>1. store'[f] = store[f] /\ \A i, k \in store[f] : i = k
      BY <1>1, <1>3, <1>5, <2>3 DEF Taken, PinnedOnce
    <3>2. PICK i \in store[f] : store[f] = {i}
      BY <2>3, <3>1
    <3> QED BY <2>3, <3>1, <3>2, FS_Singleton
  <2> QED BY <2>1, <2>2, <2>3
<1>10. IsThere(f, j)'
  BY <1>5, <1>7, <1>9 DEF IsThere, FirstIs
<1>11. /\ \A g \in Files : g # f => ref'[g] = ref[g]
       /\ Dir[f] = "tools" => IsWired(f)'
  <2> DEFINE matches == {o \in job[j].found : Name[o[1]] = Name[f]}
  <2>1. CASE Dir[f] # "tools"
    BY <1>4, <2>1
  <2>2. CASE Dir[f] = "tools"
    <3>1. Wire(j) /\ J.found = Objects("workflows")
      BY <1>4, <1>5, <1>6, <1>7, <2>2
    <3>2. IF matches = {} THEN ref' = [ref EXCEPT ![f] = {}]
          ELSE \E o \in matches : ref' = [ref EXCEPT ![f] = {o}]
      BY <1>1, <3>1 DEF Wire
    <3>3. ASSUME NEW w \in Files, Dir[w] = "workflows", Name[w] = Name[f]
          PROVE  matches # {}
      <4>1. w \in LoadFiles /\ FirstIs(w, "search")
        BY <3>3, DirsOfLoad, FirstByDir
      <4>2. w \notin Coming(J)
        <5>1. Rank[Dir[w]] < J.loader
          BY <1>5, <2>2, <3>3 DEF Rank
        <5>2. /\ J \in JobRecords /\ JobIsGood(J)
              /\ J.action = "load" /\ J.at \in Calls
          BY ReadyFacts DEF Ready
        <5> QED BY <4>1, <5>1, <5>2, PlaceInLoad
      <4>3. w # f /\ Key(w) # Key(f)
        BY <2>2, <3>3 DEF Key
      <4>4. NameIsThere(w, j)
        BY <1>5, <4>1, <4>2, <4>3, ReadyFacts DEF PastIsDone
      <4>5. PICK g \in Same(w) : store[g] = {j}
        BY <4>4 DEF NameIsThere
      <4>6. g \in Files /\ Dir[g] = "workflows" /\ Name[g] = Name[f]
        BY <3>3 DEF Same
      <4>7. <<g, j>> \in Objects("workflows")
        BY <4>5, <4>6 DEF Objects
      <4>8. <<g, j>> \in matches
        BY <1>1, <3>1, <4>6, <4>7
      <4> QED BY <4>8
    <3>4. CASE matches = {}
      <4>1. ref' = [ref EXCEPT ![f] = {}] /\ ref'[f] = {}
        BY <1>1, <1>5, <3>2, <3>4
      <4> QED BY <1>1, <3>3, <3>4, <4>1 DEF IsWired
    <3>5. CASE matches # {}
      <4>1. PICK o \in matches : ref' = [ref EXCEPT ![f] = {o}]
        BY <3>2, <3>5
      <4>2. o \in Objects("workflows")
        BY <1>1, <3>1
      <4>3. o[1] \in Files /\ Dir[o[1]] = "workflows" /\ o[2] \in store[o[1]]
        BY <4>2 DEF Objects
      <4>4. o[2] \in store'[o[1]]
        BY <1>8, <2>2, <4>3
      <4>5. ref'[f] = {o} /\ \A g \in Files : g # f => ref'[g] = ref[g]
        BY <1>1, <1>5, <4>1
      <4> QED BY <4>3, <4>4, <4>5 DEF IsWired
    <3> QED BY <3>4, <3>5
  <2> QED BY <2>1, <2>2
<1>12. Made(f, j)'
  <2>1. FirstIs(f, "search") => /\ store'[f] = {j}
                                /\ \A h \in Same(f) \ {f} : store'[h] = {}
    BY <1>5, <1>7, <1>8 DEF Same
  <2> QED BY <1>10, <1>11, <2>1 DEF Made, FirstIs
<1>13. Framed(f)
  <2>1. ASSUME NEW a \in Agents, NEW g \in Gear, lists'[a][g] # lists[a][g]
        PROVE  Dir[f] = "agents" /\ a = f
    BY <1>1, <1>3, <2>1
  <2> QED BY <1>3, <1>5, <1>8, <1>11, <2>1 DEF Framed
<1>14. Dir[f] = "agents" => lists' = [lists EXCEPT ![f] = new]
  BY <1>3, <1>6, <1>7
<1> QED BY <1>2, <1>3, <1>12, <1>13, <1>14

LEMMA PostWell ==
  ASSUME NEW J, NEW K, NEW j, Ready(J, K, j), NEW ok \in BOOLEAN, Post(j, ok)
  PROVE  Progress(K, j)'
<1> DEFINE f == J.file
<1>1. /\ Typed /\ j \in Jobs /\ J = job[j] /\ K = job'[j]
      /\ lists \in [Agents -> [Gear -> Nat]]
  BY DEF Ready, Typed
<1>2. /\ Framed(f) /\ Made(f, j)' /\ AfterPost(j) /\ J.at = "post"
      /\ Dir[f] = "agents" =>
           lists' = [lists EXCEPT ![f] = [g \in Gear |-> IF g \in Listed[f] THEN 1 ELSE 0]]
  BY PostMakes
<1>3. /\ f \in LoadFiles /\ f \in Files /\ f # NoFile /\ f \notin Shared /\ J.adds = AddTo[f]
      /\ Dir[f] = "tools" => J.found = Objects("workflows")
      /\ f \in Same(f)
  BY <1>2, ReadyFacts DEF InHand, Asked
<1>4. CASE Stays(J, K) /\ K.found = J.found /\ K.adds = J.adds /\ K.at \in {"open", "run", "get"}
  <2>1. Dir[f] = "tools" => K.found = Objects("workflows")'
    BY <1>2, <1>3, <1>4, WorkflowsStand
  <2>2. K.file = f
    BY <1>4 DEF Stays
  <2>3. InHand(K, j)'
    BY <1>2, <1>3, <1>4, <2>1, <2>2 DEF InHand
  <2> QED BY <1>2, <1>4, <2>3, StayWell
<1>5. CASE /\ Proceed(j) /\ Dir[f] # "ml"
           /\ ~(Dir[f] = "workflows" /\ "superdemo-authrun" \in Tags[f])
           /\ ~(Dir[f] \in {"tools", "skills"} /\ J.adds # {})
  <2>1. Dir[f] = "agents" => IsEquipped(f)'
    <3> SUFFICES ASSUME Dir[f] = "agents", NEW g \in Gear \ {Foreign}
                 PROVE  lists'[f][g] = IF g \in Listed[f] \/ f \in AddTo[g] THEN 1 ELSE 0
      BY DEF IsEquipped
    <3>1. f \in Agents /\ g \in Files
      BY <1>3, GearIsFiles DEF Agents
    <3>2. f \notin AddTo[g]
      BY <1>3, <3>1, AssetsAssumption
    <3>3. lists'[f][g] = IF g \in Listed[f] THEN 1 ELSE 0
      BY <1>1, <1>2, <3>1
    <3> QED BY <3>2, <3>3
  <2>2. Dir[f] \in {"tools", "skills"} => IsListed(f)'
    BY <1>3, <1>5 DEF IsListed
  <2>3. FileIsDone(f, j)'
    BY <1>2, <1>5, <2>1, <2>2 DEF FileIsDone, Made
  <2>4. FirstIs(f, "search") => NameIsThere(f, j)'
    BY <1>2, <1>3 DEF Made, NameIsThere, FirstIs
  <2> QED BY <1>2, <1>5, <2>3, <2>4, ProceedWell
<1> QED BY <1>1, <1>2, <1>4, <1>5, AfterPostGoesOn

LEMMA OpenWell ==
  ASSUME NEW J, NEW K, NEW j, Ready(J, K, j), NEW ok \in BOOLEAN, Open(j, ok)
  PROVE  Progress(K, j)'
<1> DEFINE f == J.file
<1>1. /\ Typed /\ j \in Jobs /\ J = job[j] /\ K = job'[j]
      /\ feed \in [Files -> {"closed", "opened", "started"}]
  BY DEF Ready, InRange
<1>2. ok = TRUE /\ J.at = "open"
  <2>1. Call(j, "open", ok)
    BY DEF Open
  <2> QED BY <2>1, Answered
<1>3. /\ f \in LoadFiles /\ f \in Files /\ f # NoFile /\ f \notin Shared /\ Dir[f] = "ml"
      /\ Made(f, j)
  BY <1>2, ReadyFacts DEF CallIsInPlace, InHand
<1>4. /\ feed' = IF store[f] # {} /\ feed[f] = "closed" THEN [feed EXCEPT ![f] = "opened"]
                 ELSE feed
      /\ Goto(j, "start") /\ UNCHANGED <<store, lists, ref, ran>>
  BY <1>1, <1>2 DEF Open
<1>5. store[f] # {}
  <2>1. FirstIs(f, "post")
    BY <1>3, FirstByDir
  <2> QED BY <1>3, <2>1, FS_EmptySet DEF Made, IsThere
<1>6. feed'[f] \in {"opened", "started"} /\ \A g \in Files \ {f} : feed'[g] = feed[g]
  BY <1>1, <1>3, <1>4, <1>5
<1>7. Framed(f)
  BY <1>4, <1>6 DEF Framed
<1>8. /\ Stays(J, K) /\ K.at = "start" /\ K.file = f
  BY <1>1, <1>2, <1>4, GotoStays DEF Calls, Stays
<1>9. InHand(K, j)'
  BY <1>3, <1>4, <1>6, <1>8 DEF InHand, Made, IsThere, FirstIs
<1> QED BY <1>7, <1>8, <1>9, StayWell

LEMMA FeedWell ==
  ASSUME NEW J, NEW K, NEW j, Ready(J, K, j), NEW ok \in BOOLEAN, StartFeed(j, ok)
  PROVE  Progress(K, j)'
<1> DEFINE f == J.file
<1>1. /\ Typed /\ j \in Jobs /\ J = job[j] /\ K = job'[j]
      /\ feed \in [Files -> {"closed", "opened", "started"}]
  BY DEF Ready, InRange
<1>2. ok = TRUE /\ J.at = "start"
  <2>1. Call(j, "start", ok)
    BY DEF StartFeed
  <2> QED BY <2>1, Answered
<1>3. /\ f \in LoadFiles /\ f \in Files /\ f \notin Shared /\ Dir[f] = "ml"
      /\ Made(f, j) /\ feed[f] \in {"opened", "started"}
  BY <1>2, ReadyFacts DEF CallIsInPlace, InHand
<1>4. /\ feed' = IF feed[f] = "opened" THEN [feed EXCEPT ![f] = "started"] ELSE feed
      /\ Proceed(j) /\ UNCHANGED <<store, lists, ref, ran>>
  BY <1>1, <1>2 DEF StartFeed
<1>5. feed'[f] = "started" /\ \A g \in Files \ {f} : feed'[g] = feed[g]
  BY <1>1, <1>3, <1>4
<1>6. Framed(f)
  BY <1>4, <1>5 DEF Framed
<1>7. FileIsDone(f, j)'
  BY <1>3, <1>4, <1>5 DEF FileIsDone, Made, IsThere, FirstIs
<1>8. ~FirstIs(f, "search")
  BY <1>3, FirstByDir
<1> QED BY <1>2, <1>4, <1>6, <1>7, <1>8, ProceedWell

(* The workflow that runs is the one just posted: it is the only one. *)
LEMMA RunWell ==
  ASSUME NEW J, NEW K, NEW j, Ready(J, K, j), run_workflow(j)
  PROVE  Progress(K, j)'
<1> DEFINE f == J.file
<1>1. /\ Typed /\ j \in Jobs /\ J = job[j] /\ K = job'[j]
  BY DEF Ready
<1>2. J.at = "run" /\ UNCHANGED server
  BY <1>1 DEF run_workflow
<1>3. /\ f \in LoadFiles /\ f \in Files /\ f \notin Shared /\ Dir[f] = "workflows"
      /\ f \in Same(f) /\ f # NoFile /\ Made(f, j) /\ FirstIs(f, "search")
  BY <1>2, ReadyFacts, FirstByDir DEF CallIsInPlace, InHand
<1>4. store[f] = {j} /\ \A h \in Same(f) \ {f} : store[h] = {}
  BY <1>3 DEF Made
<1>5. PICK page \in Pages("workflows") :
        \/ Found(j, page) = {}
        \/ /\ Stays(J, K) /\ K.at = "launch"
           /\ \E o \in Found(j, page) : K.found = {o}
  BY <1>1, RunMoves
<1>6. page = Objects("workflows")
  BY AllFound DEF run_workflow
<1>7. \A o \in Found(j, page) : o = <<f, j>>
  <2> SUFFICES ASSUME NEW o \in Found(j, page) PROVE o = <<f, j>>
    OBVIOUS
  <2>0. o \in page /\ o[1] \in Same(f)
    BY <1>1 DEF Found
  <2>1. PICK s \in {{<<g, i>> : i \in store[g]} : g \in {h \in Files : Dir[h] = "workflows"}} :
          o \in s
    BY <1>6, <2>0 DEF Objects
  <2>2. PICK g \in {h \in Files : Dir[h] = "workflows"} : s = {<<g, i>> : i \in store[g]}
    BY <2>1
  <2>3. PICK i \in store[g] : o = <<g, i>>
    BY <2>1, <2>2
  <2>4. g \in Same(f)
    BY <2>0, <2>3
  <2>5. g = f /\ i = j
    BY <1>4, <2>3, <2>4
  <2> QED BY <2>3, <2>5
<1>8. <<f, j>> \in Found(j, page)
  <2>1. <<f, j>> \in Objects("workflows")
    BY <1>3, <1>4 DEF Objects
  <2> QED BY <1>1, <1>3, <1>6, <2>1 DEF Found
<1>9. Stays(J, K) /\ K.at = "launch" /\ K.found = {<<f, j>>} /\ K.file = f
  BY <1>5, <1>7, <1>8 DEF Stays
<1>10. Made(f, j)'
  BY <1>2, <1>3 DEF server, Made, IsThere, IsWired, FirstIs
<1>11. InHand(K, j)'
  BY <1>3, <1>9, <1>10 DEF InHand
<1> QED BY <1>2, <1>9, <1>11, NothingMoves, StayWell

LEMMA LaunchWell ==
  ASSUME NEW J, NEW K, NEW j, Ready(J, K, j), NEW ok \in BOOLEAN, Launch(j, ok)
  PROVE  Progress(K, j)'
<1> DEFINE f == J.file
<1>1. /\ Typed /\ j \in Jobs /\ J = job[j] /\ K = job'[j]
  BY DEF Ready
<1>2. ok = TRUE /\ J.at = "launch"
  <2>1. Call(j, "launch", ok)
    BY DEF Launch
  <2> QED BY <2>1, Answered
<1>3. /\ f \in LoadFiles /\ f \in Files /\ f \notin Shared /\ Dir[f] = "workflows"
      /\ f \in Same(f) /\ Made(f, j) /\ FirstIs(f, "search") /\ J.found = {<<f, j>>}
  BY <1>2, ReadyFacts, FirstByDir DEF CallIsInPlace, InHand
<1>4. store[f] = {j} /\ \A h \in Same(f) \ {f} : store[h] = {}
  BY <1>3 DEF Made
<1>5. /\ ran' = ran \cup {o \in {<<f, j>>} : o[2] \in store[o[1]]}
      /\ Proceed(j) /\ UNCHANGED <<store, lists, ref, feed>>
  BY <1>1, <1>2, <1>3 DEF Launch
<1>6. <<f, j>> \in ran' /\ ran \subseteq ran'
  BY <1>4, <1>5
<1>7. Framed(f)
  BY <1>5, <1>6 DEF Framed
<1>8. FileIsDone(f, j)'
  BY <1>3, <1>5, <1>6 DEF FileIsDone, Made, IsThere, FirstIs, HasRun
<1>9. NameIsThere(f, j)'
  BY <1>3, <1>4, <1>5 DEF NameIsThere
<1> QED BY <1>2, <1>5, <1>7, <1>8, <1>9, ProceedWell

LEMMA GetWell ==
  ASSUME NEW J, NEW K, NEW j, Ready(J, K, j), Get(j)
  PROVE  Progress(K, j)'
<1> DEFINE f == J.file
<1>1. /\ Typed /\ j \in Jobs /\ J = job[j] /\ K = job'[j]
  BY DEF Ready
<1>2. /\ Stays(J, K) /\ J.at = "get" /\ K.at = "set" /\ K.found = J.found
      /\ K.agent \in J.adds /\ K.adds = J.adds \ {K.agent} /\ K.held = lists[K.agent]
  BY <1>1, GetMoves
<1>3. /\ f \in LoadFiles /\ f # NoFile /\ f \in Files
      /\ f \notin Shared => /\ Made(f, j)
                            /\ \A a \in AddTo[f] \ (J.adds \cup {J.agent}) : lists[a][f] > 0
      /\ Dir[f] = "tools" => J.found = Objects("workflows")
      /\ J.agent = NoFile
  BY <1>2, ReadyFacts DEF InHand, JobIsGood
<1>4. UNCHANGED <<store, lists, ref, feed, ran>> /\ Framed(f) /\ K.file = f
  BY <1>2, NothingMoves DEF Get, server, Stays
<1>5. Dir[f] = "tools" => K.found = Objects("workflows")'
  BY <1>2, <1>3, <1>4, WorkflowsStand
<1>6. f \notin Shared => Made(f, j)'
  BY <1>3, <1>4 DEF Made, IsThere, IsWired, FirstIs
<1>7. f \notin Shared => \A a \in AddTo[f] \ (K.adds \cup {K.agent}) : lists'[a][f] > 0
  <2> SUFFICES ASSUME f \notin Shared, NEW a \in AddTo[f] \ (K.adds \cup {K.agent})
               PROVE  lists[a][f] > 0
    BY <1>4
  <2>1. a # NoFile
    BY <1>3, AssetsAssumption, NamesAreApart
  <2> QED BY <1>2, <1>3, <2>1
<1>8. \A g \in Gear \ {Foreign} : K.held[g] = lists'[K.agent][g]
  BY <1>2, <1>4
<1>9. InHand(K, j)'
  BY <1>2, <1>4, <1>5, <1>6, <1>7, <1>8 DEF InHand
<1> QED BY <1>2, <1>4, <1>9, StayWell

(* Storing a shared agent gives it what its file lists, and keeps what     *)
(* the tools and skills before it asked for and nobody else.               *)
LEMMA SharedSetWell ==
  ASSUME NEW J, NEW K, NEW j, Ready(J, K, j), NEW ok \in BOOLEAN, Set(j, ok),
         J.file \in Shared
  PROVE  Progress(K, j)'
<1> DEFINE f == J.file
<1>1. /\ Typed /\ OnlyGranted /\ j \in Jobs /\ J = job[j] /\ K = job'[j]
      /\ lists \in [Agents -> [Gear -> Nat]] /\ J.action = "load" /\ J.at \in Calls
  BY DEF Ready, Typed
<1>2. ok = TRUE /\ J.at = "set"
  <2>1. Call(j, "set", ok)
    BY DEF Set
  <2> QED BY <2>1, Answered
<1>3. /\ f \in LoadFiles /\ f \in Files /\ Rank[Dir[f]] = J.loader
      /\ JobIsGood(J) /\ J \in JobRecords
      /\ \A g \in Gear \ {Foreign} : J.held[g] = lists[J.agent][g]
      /\ PastIsDone(Coming(J), f, j)
  BY <1>2, ReadyFacts DEF InHand
<1>4. /\ J.agent = f /\ J.adds = {} /\ f \in Agents /\ Dir[f] = "agents"
  BY <1>2, <1>3, AssetsAssumption, NamesAreApart DEF JobIsGood, Asked, Calls
<1>5. /\ lists' = [lists EXCEPT ![f] = NewLists(J)] /\ Proceed(j)
      /\ UNCHANGED <<store, ref, feed, ran>>
  BY <1>1, <1>2, <1>4 DEF Set
<1>6. /\ \A a \in Agents : a # f => lists'[a] = lists[a]
      /\ \A g \in Gear \ {Foreign} :
           lists'[f][g] = IF lists[f][g] > 0 \/ g \in Listed[f] THEN 1 ELSE 0
  BY <1>1, <1>3, <1>4, <1>5 DEF NewLists
<1>7. Framed(f)
  <2>1. ASSUME NEW a \in Agents, NEW g \in Gear \ {Foreign}, lists'[a][g] # lists[a][g]
        PROVE  Dir[f] = "agents" /\ a = f /\ (f \in Shared /\ lists[a][g] > 0 => lists'[a][g] > 0)
    BY <1>4, <1>6, <2>1
  <2> QED BY <1>5, <2>1 DEF Framed
<1>8. IsEquipped(f)'
  <2> SUFFICES ASSUME NEW g \in Gear \ {Foreign}
               PROVE  lists'[f][g] = IF g \in Listed[f] \/ f \in AddTo[g] THEN 1 ELSE 0
    BY DEF IsEquipped
  <2>1. g \in Files /\ Dir[g] \in {"tools", "skills"}
    BY GearIsFiles
  <2>2. lists[f][g] > 0 => g \in Listed[f] \/ f \in AddTo[g]
    BY <1>1, <1>4 DEF OnlyGranted, Granted
  <2>3. ASSUME f \in AddTo[g] PROVE lists[f][g] > 0
    <3>1. g \in LoadFiles
      BY <2>1, DirsOfLoad
    <3>2. Rank[Dir[g]] < J.loader /\ g # f
      BY <1>3, <1>4, <2>1 DEF Rank
    <3>3. g \notin Coming(J)
      BY <1>1, <1>3, <3>1, <3>2, PlaceInLoad
    <3>4. FileIsDone(g, j)
      BY <1>3, <3>1, <3>2, <3>3 DEF PastIsDone
    <3> QED BY <2>1, <2>3, <3>4 DEF FileIsDone, IsListed
  <2> QED BY <1>6, <2>2, <2>3
<1>9. FileIsDone(f, j)'
  BY <1>4, <1>8 DEF FileIsDone
<1>10. ~FirstIs(f, "search")
  BY <1>3, <1>4, FirstByDir
<1> QED BY <1>2, <1>5, <1>7, <1>9, <1>10, ProceedWell

(* Storing an agent for a tool or skill adds that and nothing else.        *)
LEMMA GearSetWell ==
  ASSUME NEW J, NEW K, NEW j, Ready(J, K, j), NEW ok \in BOOLEAN, Set(j, ok),
         J.file \notin Shared
  PROVE  Progress(K, j)'
<1> DEFINE f == J.file
           a == J.agent
<1>1. /\ Typed /\ j \in Jobs /\ J = job[j] /\ K = job'[j]
      /\ lists \in [Agents -> [Gear -> Nat]]
  BY DEF Ready, Typed
<1>2. ok = TRUE /\ J.at = "set"
  <2>1. Call(j, "set", ok)
    BY DEF Set
  <2> QED BY <2>1, Answered
<1>3. /\ f \in LoadFiles /\ f \in Files /\ f # NoFile
      /\ JobIsGood(J) /\ J \in JobRecords /\ Made(f, j)
      /\ \A g \in Gear \ {Foreign} : J.held[g] = lists[a][g]
      /\ \A b \in AddTo[f] \ (J.adds \cup {a}) : lists[b][f] > 0
      /\ Dir[f] = "tools" => J.found = Objects("workflows")
      /\ Dir[f] \in {"tools", "skills"}
  BY <1>2, ReadyFacts DEF InHand, CallIsInPlace
<1>4. a \in AddTo[f] /\ a \in Agents /\ a # NoFile /\ f \in Gear \ {Foreign}
  <2>1. a \in AddTo[f]
    BY <1>2, <1>3 DEF JobIsGood, Asked
  <2> QED BY <1>3, <2>1, AssetsAssumption, NamesAreApart, GearIsFiles
<1>5. /\ lists' = [lists EXCEPT ![a] = NewLists(J)] /\ UNCHANGED <<store, ref, feed, ran>>
  BY <1>1, <1>2 DEF Set
<1>6. /\ \A b \in Agents : b # a => lists'[b] = lists[b]
      /\ lists'[a][f] > 0
      /\ \A g \in Gear \ {Foreign} : g # f => lists'[a][g] = lists[a][g]
  BY <1>1, <1>3, <1>4, <1>5 DEF NewLists
<1>7. Framed(f)
  <2>1. ASSUME NEW b \in Agents, NEW g \in Gear \ {Foreign}, lists'[b][g] # lists[b][g]
        PROVE  g = f
    BY <1>6, <2>1
  <2> QED BY <1>3, <1>5, <2>1 DEF Framed
<1>8. \A b \in AddTo[f] \ J.adds : lists'[b][f] > 0
  <2> SUFFICES ASSUME NEW b \in AddTo[f] \ J.adds PROVE lists'[b][f] > 0
    OBVIOUS
  <2>1. b \in Agents
    BY <1>3, AssetsAssumption, NamesAreApart
  <2> QED BY <1>3, <1>6, <2>1
<1>9. Made(f, j)'
  BY <1>3, <1>5 DEF Made, IsThere, IsWired, FirstIs
<1>10. CASE J.adds # {}
  <2>1. /\ Stays(J, K) /\ K.at = "get" /\ K.found = J.found /\ K.adds = J.adds
        /\ K.agent = NoFile /\ K.file = f
    BY <1>1, <1>10, SetMoves DEF Stays
  <2>2. Dir[f] = "tools" => K.found = Objects("workflows")'
    BY <1>3, <1>7, <2>1, WorkflowsStand
  <2>3. InHand(K, j)'
    BY <1>8, <1>9, <2>1, <2>2 DEF InHand
  <2> QED BY <1>7, <2>1, <2>3, StayWell
<1>11. CASE J.adds = {}
  <2>1. Proceed(j)
    BY <1>1, <1>11, SetMoves
  <2>2. FileIsDone(f, j)'
    BY <1>3, <1>8, <1>9, <1>11 DEF FileIsDone, Made, IsListed
  <2>3. ~FirstIs(f, "search")
    BY <1>3, FirstByDir
  <2> QED BY <1>2, <1>7, <2>1, <2>2, <2>3, ProceedWell
<1> QED BY <1>10, <1>11

LEMMA LoadingWell ==
  ASSUME NEW J, NEW K, NEW j, Ready(J, K, j), Loading(j)
  PROVE  Progress(K, j)'
  BY PutWell, ListWell, SearchWell, DeleteWell, RemoveWell, PostWell, OpenWell, FeedWell,
     RunWell, LaunchWell, GetWell, SharedSetWell, GearSetWell DEF Loading

(* A load that starts has all files before it. *)
LEMMA StartWell ==
  ASSUME Typed, Typed', NEW j \in Jobs, NEW action \in Programs, Start(j, action),
         NEW K, K = job'[j], K.action = "load"
  PROVE  Progress(K, j)'
<1>1. PICK J : J = [Idle EXCEPT !.action = action]
  OBVIOUS
<1>2. /\ GoesOn(J, K, Later(J))
      /\ K.at \in Calls \ {"list"} => Dir[K.file] # "tools"
  BY <1>1, StartGoesOn
<1>3. /\ JobIsGood(K) /\ K \in JobRecords
  BY DEF Typed
<1>4. InHand(K, j)'
  BY <1>2, <1>3, FreshInHand
<1>5. J.action = "load" /\ J.loader = 0
  <2>1. J.action = action /\ J.loader = 0
    BY <1>1 DEF Idle
  <2> QED BY <1>2, <2>1 DEF GoesOn
<1>6. LoadFiles \subseteq Later(J)
  BY <1>5 DEF LoadFiles, Later, main
<1>7. PICK rest, file : rest = Coming(K) /\ file = K.file
  OBVIOUS
<1>8. LoadFiles \subseteq rest \cup {file}
  BY <1>2, <1>6, <1>7 DEF GoesOn
<1>9. PastIsDone(rest, file, j)'
  BY <1>8 DEF PastIsDone
<1> QED BY <1>4, <1>7, <1>9 DEF Progress

(* What somebody else gives to an agent is none of a load's. *)
LEMMA ForeignIsApart ==
  ASSUME UNCHANGED <<store, ref, feed, ran>>,
         \A a \in Agents, g \in Gear \ {Foreign} : lists'[a][g] = lists[a][g],
         NEW J \in JobRecords, JobIsGood(J), NEW j, Progress(J, j)
  PROVE  Progress(J, j)'
<1>1. \A f \in Files : Dir[f] \in {"tools", "skills"} =>
        /\ f \in Gear \ {Foreign}
        /\ \A a \in AddTo[f] : a \in Agents /\ lists'[a][f] = lists[a][f]
  BY AssetsAssumption, NamesAreApart, GearIsFiles
<1>2. PICK rest, file : rest = Coming(J) /\ file = J.file
  OBVIOUS
<1>3. PastIsDone(rest, file, j)'
  <2>1. PastIsDone(rest, file, j)
    BY <1>2 DEF Progress
  <2> SUFFICES ASSUME NEW f \in LoadFiles \ (rest \cup {file})
               PROVE  /\ FileIsDone(f, j)'
                      /\ FirstIs(f, "search") /\ (file = NoFile \/ Key(f) # Key(file)) =>
                           NameIsThere(f, j)'
    BY DEF PastIsDone
  <2>2. /\ FileIsDone(f, j) /\ f \in Files
        /\ FirstIs(f, "search") /\ (file = NoFile \/ Key(f) # Key(file)) => NameIsThere(f, j)
    BY <2>1 DEF PastIsDone, LoadFiles
  <2>3. Dir[f] \in {"tools", "skills"} => IsListed(f)'
    BY <1>1, <2>2 DEF FileIsDone, IsListed
  <2>4. Dir[f] = "agents" => IsEquipped(f)'
    BY <2>2 DEF FileIsDone, IsEquipped, Agents
  <2>5. /\ f \notin Shared => IsThere(f, j)'
        /\ Dir[f] = "tools" => IsWired(f)'
        /\ Dir[f] = "ml" => feed'[f] = "started"
        /\ Dir[f] = "workflows" /\ "superdemo-authrun" \in Tags[f] => HasRun(f, j)'
    BY <2>2 DEF FileIsDone, IsThere, IsWired, HasRun
  <2>6. FileIsDone(f, j)'
    BY <2>3, <2>4, <2>5 DEF FileIsDone
  <2> QED BY <2>2, <2>6 DEF NameIsThere
<1>4. InHand(J, j)'
  <2>1. InHand(J, j)
    BY DEF Progress
  <2>2. J.at \in {"get", "set"} /\ file \notin Shared =>
          \A a \in AddTo[file] \ (J.adds \cup {J.agent}) : lists'[a][file] > 0
    <3> SUFFICES ASSUME J.at \in {"get", "set"}, file \notin Shared,
                        NEW a \in AddTo[file] \ (J.adds \cup {J.agent})
                 PROVE  lists'[a][file] > 0
      OBVIOUS
    <3>1. lists[a][file] > 0
      BY <1>2, <2>1 DEF InHand
    <3>2. file \in Files /\ Dir[file] \in {"tools", "skills"}
      BY <1>2 DEF JobIsGood, CallIsInPlace, Calls, FilesOf
    <3> QED BY <1>1, <3>1, <3>2
  <2>3. J.at = "set" => \A g \in Gear \ {Foreign} : J.held[g] = lists'[J.agent][g]
    <3>1. J.at = "set" => J.agent \in Agents
      BY NamesAreApart DEF JobIsGood, JobRecords
    <3> QED BY <2>1, <3>1 DEF InHand
  <2>4. Objects("workflows")' = Objects("workflows") /\ \A f : Made(f, j) => Made(f, j)'
    BY DEF Objects, Made, IsThere, IsWired, FirstIs
  <2> QED BY <1>2, <2>1, <2>2, <2>3, <2>4 DEF InHand
<1> QED BY <1>2, <1>3, <1>4 DEF Progress

(* The loads that nothing disturbed go well. *)
LEMMA WellInvariant == Spec => []LoadGoesWell
<1>1. Init => LoadGoesWell
  BY DEF Init, LoadGoesWell, Idle, Calls
<1>2. ASSUME IInv, IInv', InRange, PinnedOnce, OnlyGranted, InOrder, Alone, LoadGoesWell,
             [Next]_vars
      PROVE  LoadGoesWell'
  <2> SUFFICES ASSUME NEW k \in Jobs, k \notin disturbed', NEW K \in JobRecords, K = job'[k],
                      K.action = "load", K.at \in Calls \cup {"done"},
                      \A i \in Jobs : i > k => job'[i].at = "idle"
               PROVE  Progress(K, k)'
    BY DEF LoadGoesWell
  <2>0. /\ Typed /\ Typed' /\ "idle" \notin Calls \cup {"done"}
        /\ "dead" \notin Calls \cup {"idle", "done"} /\ "done" \notin Calls
        /\ \A i \in Jobs : i \in Nat
    BY <1>2, JobsAreNumbers DEF IInv, Calls
  <2>1. ASSUME job'[k] = job[k], k \notin disturbed
        PROVE  /\ JobIsGood(K)
               /\ \A i \in Jobs : i < k => job[i].at \notin Calls \cup {"idle"}
               /\ (\A i \in Jobs : i > k => job[i].at = "idle") => Progress(K, k)
    <3>1. job[k].at \in Calls \cup {"done"} /\ job[k].at # "idle"
      BY <2>0, <2>1
    <3>2. \A i \in Jobs : i < k => job[i].at \in {"done", "dead"}
      BY <1>2, <2>1, <3>1 DEF Alone
    <3>3. JobIsGood(K)
      BY <2>0 DEF Typed
    <3>4. (\A i \in Jobs : i > k => job[i].at = "idle") => Progress(K, k)
      BY <1>2, <2>1, <3>1 DEF LoadGoesWell
    <3> QED BY <2>0, <3>2, <3>3, <3>4
  <2>2. ASSUME NEW j \in Jobs, Loading(j) PROVE Progress(K, k)'
    <3>1. Moved(j) /\ disturbed \subseteq disturbed'
      BY <2>0, <2>2, LoadingMoves
    <3>2. /\ job[j].at \in Calls /\ job'[j].at \in Calls \cup {"done"}
          /\ \A i \in Jobs : i # j => job'[i] = job[i]
      BY <3>1, MovedRuns DEF Moved
    <3>3. CASE j = k
      <4>1. PICK J : J = job[j]
        OBVIOUS
      <4>2. J \in JobRecords /\ J.action = "load" /\ J.at \in Calls
        <5>1. Stays(J, K) \/ GoesOn(J, K, Coming(J))
          BY <3>1, <3>3, <4>1 DEF Moved
        <5> QED BY <2>0, <3>2, <4>1, <5>1 DEF Stays, GoesOn, Typed
      <4>3. \A i \in Jobs : i > k => job[i].at = "idle"
        BY <2>0, <3>2, <3>3
      <4>4. Progress(J, j)
        BY <1>2, <3>1, <3>3, <4>1, <4>2, <4>3 DEF LoadGoesWell
      <4>5. Ready(J, K, j)
        BY <1>2, <2>0, <3>3, <4>1, <4>2, <4>4 DEF Ready
      <4> QED BY <2>2, <3>3, <4>5, LoadingWell
    <3>4. CASE j # k
      <4>1. k \notin disturbed /\ job'[k] = job[k]
        BY <3>1, <3>2, <3>4
      <4>2. ~(j < k)
        BY <2>1, <3>2, <4>1
      <4>3. ~(j > k)
        BY <2>0, <3>2
      <4> QED BY <2>0, <3>4, <4>2, <4>3
    <3> QED BY <3>3, <3>4
  <2>3. ASSUME NEW j \in Jobs, Die(j) PROVE Progress(K, k)'
    <3>1. /\ job[j].at \in Calls /\ job'[j].at = "dead" /\ disturbed \subseteq disturbed'
          /\ \A i \in Jobs : i # j => job'[i] = job[i]
      BY <2>0, <2>3, DieEnds DEF Die
    <3>2. j # k
      BY <2>0, <3>1
    <3>3. k \notin disturbed /\ job'[k] = job[k]
      BY <3>1, <3>2
    <3>4. ~(j < k)
      BY <2>1, <3>1, <3>3
    <3>5. ~(j > k)
      BY <2>0, <3>1
    <3> QED BY <2>0, <3>2, <3>4, <3>5
  <2>4. ASSUME NEW j \in Jobs, NEW action \in Programs, Start(j, action)
        PROVE  Progress(K, k)'
    <3>1. /\ job[j].at = "idle" /\ job'[j].at \in Calls \cup {"done"}
          /\ \A i \in Jobs : i # j => job'[i] = job[i]
          /\ disturbed \subseteq disturbed'
      BY <2>0, <2>4, StartRuns
    <3>2. CASE j = k
      BY <2>0, <2>4, <3>2, StartWell
    <3>3. CASE j # k
      <4>1. k \notin disturbed /\ job'[k] = job[k]
        BY <3>1, <3>3
      <4>2. ~(j < k)
        BY <2>1, <3>1, <4>1
      <4>3. ~(j > k)
        BY <2>0, <3>1
      <4> QED BY <2>0, <3>3, <4>2, <4>3
    <3> QED BY <3>2, <3>3
  <2>5. ASSUME UNCHANGED <<store, ref, feed, ran, job, disturbed>>,
               \A a \in Agents, g \in Gear \ {Foreign} : lists'[a][g] = lists[a][g]
        PROVE  Progress(K, k)'
    <3>1. JobIsGood(K) /\ Progress(K, k)
      BY <2>1, <2>5
    <3> QED BY <2>5, <3>1, ForeignIsApart
  <2>6. ASSUME NEW a \in Agents, Edit(a) PROVE Progress(K, k)'
    <3>1. /\ UNCHANGED <<store, ref, feed, ran, job, disturbed>>
          /\ lists' = [lists EXCEPT ![a][Foreign] = 1]
      BY <2>6 DEF Edit
    <3>2. \A b \in Agents, g \in Gear \ {Foreign} : lists'[b][g] = lists[b][g]
      BY <2>0, <3>1 DEF Typed
    <3> QED BY <2>5, <3>1, <3>2
  <2>7. CASE UNCHANGED vars
    BY <2>5, <2>7 DEF vars, server, history
  <2> QED BY <1>2, <2>2, <2>3, <2>4, <2>6, <2>7 DEF Next
<1> QED BY <1>1, <1>2, Invariance, RangeInvariant, KeepsInvariant, OrderInvariant, PTL DEF Spec

(* assets/app.py: a full load that no fault, no other job and no full page *)
(* disturbed leaves what its files ask for, whatever was there before:     *)
(* what is put, removed or searched for first once and new, what is posted *)
(* under an id of its own once, what is only posted, as the rules are, new *)
(* among what earlier loads left; each tool calling a workflow there is,   *)
(* each tool and skill on the agents it belongs to and no others, once on  *)
(* those whose file was loaded; detectors running, workflows run.          *)
THEOREM LoadIsComplete == Spec => []UndisturbedLoadIsComplete
<1>1. LoadGoesWell /\ IInv /\ OnlyGranted => UndisturbedLoadIsComplete
  <2> SUFFICES ASSUME LoadGoesWell, IInv, OnlyGranted, NEW j \in Jobs, job[j].at = "done",
                      job[j].action = "load", j \notin disturbed,
                      \A i \in Jobs : i > j => job[i] = Idle
               PROVE  /\ EachFileIsThere(j) /\ EachNameIsThereOnce(j) /\ ToolsAreWired
                      /\ AgentsAreEquipped /\ FeedsAreStarted /\ AuthrunsRan(j)
    BY DEF UndisturbedLoadIsComplete
  <2>1. PICK J \in JobRecords : J = job[j]
    BY DEF IInv, Typed
  <2>2. \A i \in Jobs : i > j => job[i].at = "idle"
    BY DEF Idle
  <2>3. Progress(J, j)
    BY <2>1, <2>2 DEF LoadGoesWell
  <2>4. Coming(J) = {} /\ J.file = NoFile
    BY <2>1, <2>3 DEF Progress, InHand, Coming, Calls
  <2>5. \A f \in LoadFiles : /\ FileIsDone(f, j) /\ f \in Files
                             /\ FirstIs(f, "search") => NameIsThere(f, j)
    BY <2>3, <2>4, GearIsFiles DEF Progress, PastIsDone, LoadFiles
  <2>6. EachFileIsThere(j)
    <3> SUFFICES ASSUME NEW f \in Files \ Shared
                 PROVE  /\ FirstIs(f, "put") \/ FirstIs(f, "remove") => store[f] = {j}
                        /\ FirstIs(f, "post") => IF f \in Pinned THEN Cardinality(store[f]) = 1
                                                 ELSE j \in store[f]
      BY DEF EachFileIsThere
    <3>1. \A first : FirstIs(f, first) => f \in LoadFiles
      BY DirsOfLoad
    <3> QED BY <2>5, <3>1 DEF FileIsDone, IsThere
  <2>7. EachNameIsThereOnce(j)
    <3> SUFFICES ASSUME NEW f \in Files, FirstIs(f, "search") PROVE NameIsThere(f, j)
      BY DEF EachNameIsThereOnce, NameIsThere
    <3> QED BY <2>5, DirsOfLoad
  <2>8. ToolsAreWired
    BY <2>5, DirsOfLoad DEF ToolsAreWired, FileIsDone, IsWired
  <2>9. AgentsAreEquipped
    <3> SUFFICES ASSUME NEW a \in Agents, NEW g \in Gear \ {Foreign}
                 PROVE  /\ lists[a][g] > 0 <=>
                             (a \in Files /\ g \in Listed[a]) \/ a \in AddTo[g]
                        /\ a \in Files => lists[a][g] <= 1
      BY DEF AgentsAreEquipped
    <3>1. CASE a \in Files
      <4>1. Dir[a] = "agents"
        BY <3>1, AssetsAssumption DEF Agents
      <4>2. IsEquipped(a)
        BY <2>5, <3>1, <4>1, DirsOfLoad DEF FileIsDone
      <4> QED BY <3>1, <4>2 DEF IsEquipped
    <3>2. CASE a \notin Files
      <4>1. g \in Files /\ Dir[g] \in {"tools", "skills"}
        BY GearIsFiles
      <4>2. lists[a][g] > 0 => a \in AddTo[g]
        BY <3>2 DEF OnlyGranted, Granted
      <4>3. a \in AddTo[g] => lists[a][g] > 0
        BY <2>5, <4>1, DirsOfLoad DEF FileIsDone, IsListed
      <4> QED BY <3>2, <4>2, <4>3
    <3> QED BY <3>1, <3>2
  <2>10. FeedsAreStarted
    BY <2>5, DirsOfLoad DEF FeedsAreStarted, FileIsDone
  <2>11. AuthrunsRan(j)
    BY <2>5, DirsOfLoad DEF AuthrunsRan, FileIsDone, HasRun
  <2> QED BY <2>6, <2>7, <2>8, <2>9, <2>10, <2>11
<1> QED BY <1>1, Invariance, WellInvariant, KeepsInvariant, PTL
(* assets/app.py: what somebody else gave to a shared agent stays, unless  *)
(* it was given between a job's fetching and its storing of the agent.     *)
THEOREM ForeignSurvives == Spec => []ForeignEntriesSurvive
<1>1. IInv => ForeignEntriesSurvive
  BY DEF IInv
<1> QED BY <1>1, Invariance, PTL

(* assets/app.py: of the names that were ever loaded, no more are missing  *)
(* than calls failed or jobs died, and one for each job between deleting   *)
(* and making.                                                             *)
THEOREM OneIsMissing == Spec => []OneAssetAtATime
<1>1. IInv => OneAssetAtATime
  <2> SUFFICES ASSUME IInv PROVE Cardinality(Missing) <= faults + Cardinality(Between)
    BY DEF OneAssetAtATime, Missing, Between
  <2>1. PICK G \in SUBSET {Key(f) : f \in Files} : Accounted(G)
    BY DEF IInv, MissingAreAccounted
  <2>2. IsFiniteSet(Jobs) /\ Between \subseteq Jobs
    BY AssetsAssumption, FS_Interval DEF Jobs, Between
  <2>3. IsFiniteSet(Between)
    BY <2>2, FS_Subset
  <2> DEFINE made == {Key(job[j].file) : j \in Between}
  <2>4. IsFiniteSet(made) /\ Cardinality(made) <= Cardinality(Between)
    <3> DEFINE name == [j \in Between |-> Key(job[j].file)]
    <3>1. name \in Surjection(Between, made)
      BY DEF Surjection
    <3> QED BY <2>3, <3>1, FS_Surjection DEF ExistsSurjection
  <2>5. IsFiniteSet(G) /\ Cardinality(G) <= faults /\ Missing \subseteq G \cup made
    BY <2>1 DEF Accounted
  <2> HIDE DEF made
  <2>6. IsFiniteSet(G \cup made) /\ Cardinality(G \cup made) <= Cardinality(G) + Cardinality(made)
    <3>1. /\ IsFiniteSet(G \cup made) /\ IsFiniteSet(G \cap made)
          /\ Cardinality(G \cup made)
               = Cardinality(G) + Cardinality(made) - Cardinality(G \cap made)
      BY <2>4, <2>5, FS_Union, FS_Intersection
    <3> QED BY <2>4, <2>5, <3>1, FS_CardinalityType
  <2>7. Cardinality(Missing) <= Cardinality(G \cup made) /\ IsFiniteSet(Missing)
    BY <2>5, <2>6, FS_Subset
  <2>8. /\ Cardinality(Missing) \in Nat /\ Cardinality(G \cup made) \in Nat
        /\ Cardinality(G) \in Nat /\ Cardinality(made) \in Nat
        /\ Cardinality(Between) \in Nat /\ faults \in Nat
    BY <2>3, <2>4, <2>5, <2>6, <2>7, FS_CardinalityType DEF IInv, Typed
  <2> QED BY <2>4, <2>5, <2>6, <2>7, <2>8
<1> QED BY <1>1, Invariance, PTL
=============================================================================

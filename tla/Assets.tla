------------------------------- MODULE Assets -------------------------------
(***************************************************************************)
(* The assets loader (assets/app.py): a Kubernetes Job that walks a        *)
(* directory per kind of asset and makes Kibana and Elasticsearch agree    *)
(* with the files, one HTTP call after the other.  It keeps no state of    *)
(* its own and undoes nothing: what an earlier load left behind is all the *)
(* next one finds.  A call that is refused is printed and passed over; a   *)
(* broken connection, an answer that is no JSON or lacks a key ends the    *)
(* job, backoffLimit 0, and somebody starts another, perhaps while the     *)
(* first still runs.                                                       *)
(*                                                                         *)
(* An object on the server is known by the job that created it: a job      *)
(* creates one for each file at most.  A file that is expanded to several  *)
(* bodies (substitute) counts as that many files.                          *)
(***************************************************************************)
EXTENDS Naturals, Sequences, FiniteSets

CONSTANTS
  Files,      (* the files check_if_enabled lets through                    *)
  Dir,        (* each file's directory                                      *)
  Name,       (* the name or title in it                                    *)
  Pinned,     (* files whose object has an id of the file's choosing        *)
  Tags,       (* each file's tags                                           *)
  AddTo,      (* the agents a tool or skill asks to be added to             *)
  Listed,     (* the tools and skills an agent's file lists                 *)
  Shared,     (* Kibana's own agents, there without the loader; those among *)
              (* Files are loaded with "x-update", the others are not       *)
  NoFile,     (* no file                                                    *)
  Foreign,    (* a skill somebody else gives to a shared agent              *)
  Programs,   (* bound: the actions the jobs are started with               *)
  PageSize,   (* what a search returns at most: size=50 in the code         *)
  MaxJobs,    (* bound: jobs                                                *)
  MaxFaults   (* bound: refused calls and deaths                            *)

Kibana == 0                           (* the maker of what was there before *)
Jobs   == 1 .. MaxJobs
Agents == {f \in Files : Dir[f] = "agents"} \cup Shared
Gear   == {f \in Files : Dir[f] \in {"tools", "skills"}} \cup {Foreign}

ASSUME AssetsAssumption ==
  /\ {Foreign, NoFile} \cap (Files \cup Shared) = {} /\ IsFiniteSet(Files)
  /\ \A f \in Shared \cap Files : Dir[f] = "agents"
  /\ \A f \in Files : AddTo[f] \subseteq Shared
  /\ PageSize \in Nat \ {0} /\ MaxJobs \in Nat /\ MaxFaults \in Nat

VARIABLES
  store,      (* the objects made from each file, by the jobs that did      *)
  lists,      (* how often each agent lists each tool and skill             *)
  ref,        (* the workflow object each tool calls, by its maker          *)
  feed,       (* state of each anomaly detector                             *)
  ran,        (* history: <<workflow, job>> that was run after its load     *)
  job,        (* each job: its action and how far it is                     *)
  faults,     (* refused calls and deaths so far                            *)
  disturbed,  (* history: jobs that met a fault, another job or a full page *)
  ever,       (* history: names that were on the server at some time        *)
  safe        (* history: agents given Foreign while no job held a copy     *)

server  == <<store, lists, ref, feed, ran>>
history == <<disturbed, ever, safe>>
vars    == <<server, job, faults, history>>

-----------------------------------------------------------------------------
(* The loaders: a directory, and the first call made for each of its       *)
(* files.  An agent with "x-update" is fetched, another is deleted.        *)
Loader(dir, first) == [dir |-> dir, first |-> first]

load_ilm               == Loader("ilm", "put")
load_workflows         == Loader("workflows", "search")
load_connectors        == Loader("connectors", "post")
load_ai_indexes        == Loader("ai_indexes", "post")
load_agent_tools       == Loader("tools", "remove")
load_skills            == Loader("skills", "remove")
load_agents            == Loader("agents", "remove")
load_synthetics        == Loader("synthetics", "search")
load_aliases           == Loader("aliases", "put")
load_dataviews         == Loader("data_views", "post")
load_ml                == Loader("ml", "post")
enable_rules           == Loader("rules_enable", "put")
load_rules             == Loader("rules", "post")
load_objects           == Loader("objects", "put")
load_dashboards        == Loader("dashboards", "put")
load_slos              == Loader("slos", "search")
load_streams           == Loader("streams", "put")
load_esql_views        == Loader("esql_views", "put")
load_field_definitions == Loader("field_definitions", "post")
load_esql_data_sources == Loader("esql_datasources", "put")
load_esql_data_sets    == Loader("esql_datasets", "put")
load_new_knowledge     == Loader("knowledge", "post")

(* main: the loaders of an action, in their order. *)
Single ==
  [load_workflows |-> <<load_workflows>>,
   load_alerts    |-> <<enable_rules, load_rules>>,
   load_knowledge |-> <<load_new_knowledge>>,
   load_synthetics |-> <<load_synthetics>>,
   load_agents    |-> <<load_agents>>,
   load_tools     |-> <<load_agent_tools>>,
   load_aliases   |-> <<load_aliases, load_dataviews>>,
   load_ai_indexes |-> <<load_ai_indexes>>,
   load_ml        |-> <<load_ml>>,
   load_skills    |-> <<load_skills>>,
   load_slos      |-> <<load_slos>>,
   load_objects   |-> <<load_objects>>,
   load_dashboards |-> <<load_dashboards>>,
   load_streams   |-> <<load_streams>>,
   load_ilm       |-> <<load_ilm>>,
   load_esql      |-> <<load_esql_views, load_esql_data_sources, load_esql_data_sets>>]

Load ==
  <<load_ilm, load_workflows, load_connectors, load_ai_indexes, load_agent_tools,
    load_skills, load_agents, load_synthetics, load_aliases, load_dataviews, load_ml,
    enable_rules, load_rules, load_objects, load_dashboards, load_slos, load_streams,
    load_esql_views, load_field_definitions, load_esql_data_sources, load_esql_data_sets>>

main(action) == IF action = "load" THEN Load ELSE Single[action]
Actions      == {"load"} \cup DOMAIN Single

ASSUME ProgramsAssumption == Programs \subseteq Actions

-----------------------------------------------------------------------------
Calls  == {"list", "put", "search", "delete", "remove", "post", "open", "start", "run",
           "launch", "get", "set"}
NoGear == [g \in Gear |-> 0]

(* A job: its action, the loader it is in, the file it works on and those  *)
(* left in the directory, the call it makes next, what its last search     *)
(* found, the agents still to be given the file's tool or skill, and the   *)
(* copy of an agent's lists it holds between fetching and storing it.      *)
Idle == [action |-> "none", loader |-> 0, file |-> NoFile, todo |-> {}, at |-> "idle",
         found |-> {}, adds |-> {}, agent |-> NoFile, held |-> NoGear]

End(J, at) == [Idle EXCEPT !.action = J.action, !.at = at]

Kind(g) == IF g = Foreign THEN "skills" ELSE Dir[g]
Running == {j \in Jobs : job[j].at \in Calls}
Same(f) == {g \in Files : Dir[g] = Dir[f] /\ Name[g] = Name[f]}
Key(f)  == <<Dir[f], Name[f]>>

FilesOf(action, k) == {f \in Files : Dir[f] = main(action)[k].dir}

(* The next file of a directory, in whatever order os.walk gives it.  An   *)
(* agent with "x-update" is fetched and stored, never removed.             *)
Take(J, todo) ==
  {[J EXCEPT !.file = f, !.todo = todo \ {f},
             !.at = IF f \in Shared THEN "get" ELSE main(J.action)[J.loader].first,
             !.adds = IF f \in Shared THEN {f} ELSE AddTo[f]] : f \in todo}

(* The next directory that has files.  load_agent_tools first lists the    *)
(* workflows, once for all tools.                                          *)
Enter(J) ==
  LET left  == {k \in J.loader + 1 .. Len(main(J.action)) : FilesOf(J.action, k) # {}}
      At(k) == LET K == [J EXCEPT !.loader = k]
               IN  IF main(J.action)[k] = load_agent_tools
                   THEN {[K EXCEPT !.todo = FilesOf(J.action, k), !.at = "list"]}
                   ELSE Take(K, FilesOf(J.action, k))
  IN  IF left = {} THEN {End(J, "done")}
      ELSE UNION {At(k) : k \in {n \in left : \A l \in left : n <= l}}

(* What follows when nothing is left to do for the job's file.             *)
Onward(J) ==
  LET K == [J EXCEPT !.agent = NoFile, !.held = NoGear,
                     !.found = IF Dir[J.file] = "tools" /\ J.todo # {} THEN @ ELSE {}]
  IN  IF J.todo # {} THEN Take(K, J.todo) ELSE Enter([K EXCEPT !.file = NoFile])

-----------------------------------------------------------------------------
Init ==
  /\ store = [f \in Files |-> IF f \in Shared THEN {Kibana} ELSE {}]
  /\ lists = [a \in Agents |-> NoGear]
  /\ ref = [f \in Files |-> {}]
  /\ feed = [f \in Files |-> "closed"]
  /\ ran = {}
  /\ job = [j \in Jobs |-> Idle]
  /\ faults = 0 /\ disturbed = {} /\ safe = {}
  /\ ever = {Key(f) : f \in Shared \cap Files}

(* The job's call gets its answer, or it is refused and passed over.       *)
Call(j, at, ok) ==
  /\ job[j].at = at
  /\ ok \/ faults < MaxFaults
  /\ faults' = IF ok THEN faults ELSE faults + 1
  /\ disturbed' = IF ok THEN disturbed ELSE disturbed \cup {j}

Goto(j, at)  == job' = [job EXCEPT ![j].at = at]
Proceed(j)   == \E J \in Onward(job[j]) : job' = [job EXCEPT ![j] = J]
StoreIs(s)   == store' = s /\ ever' = ever \cup {Key(f) : f \in {g \in Files : s[g] # {}}}

(* A search answers a page of the directory's objects; a full page may     *)
(* hide some.                                                              *)
Objects(dir) == UNION {{<<f, i>> : i \in store[f]} : f \in {g \in Files : Dir[g] = dir}}
Pages(dir)   == {p \in SUBSET Objects(dir) :
                   Cardinality(p) = IF Cardinality(Objects(dir)) <= PageSize
                                    THEN Cardinality(Objects(dir)) ELSE PageSize}

Searched(j, dir) ==
  /\ disturbed' = IF Cardinality(Objects(dir)) <= PageSize THEN disturbed
                  ELSE disturbed \cup {j}
  /\ UNCHANGED faults

-----------------------------------------------------------------------------
(* Somebody starts a job, whatever others are doing.                       *)
Start(j, action) ==
  /\ job[j] = Idle /\ \A i \in 1 .. j - 1 : job[i] # Idle
  /\ \E J \in Enter([Idle EXCEPT !.action = action]) : job' = [job EXCEPT ![j] = J]
  /\ disturbed' = IF Running = {} THEN disturbed ELSE disturbed \cup Running \cup {j}
  /\ UNCHANGED <<server, faults, ever, safe>>

(* The connection breaks, an answer is no JSON or lacks a key, or the pod  *)
(* is killed.                                                              *)
Die(j) ==
  /\ j \in Running /\ faults < MaxFaults
  /\ job' = [job EXCEPT ![j] = End(@, "dead")]
  /\ faults' = faults + 1 /\ disturbed' = disturbed \cup {j}
  /\ UNCHANGED <<server, ever, safe>>

Put(j, ok) ==
  /\ Call(j, "put", ok)
  /\ StoreIs(IF ok THEN [store EXCEPT ![job[j].file] = {j}] ELSE store)
  /\ Proceed(j)
  /\ UNCHANGED <<lists, ref, feed, ran, safe>>

(* load_agent_tools lists the workflows before its first tool.             *)
List(j) ==
  /\ job[j].at = "list" /\ Searched(j, "workflows")
  /\ \E page \in Pages("workflows") :
       \E J \in Take([job[j] EXCEPT !.found = page], job[j].todo) :
         job' = [job EXCEPT ![j] = J]
  /\ UNCHANGED <<server, ever, safe>>

(* delete_existing_workflow, delete_synthetic, delete_existing_slo: search *)
(* by name, then one call for each that was found.                         *)
Found(j, page) == {o \in page : o[1] \in Same(job[j].file)}

MutSearchAlwaysDeletes(j) ==
  /\ job[j].at = "search" /\ Searched(j, Dir[job[j].file])
  /\ \E page \in Pages(Dir[job[j].file]) :
       job' = [job EXCEPT ![j].found = Found(j, page), ![j].at = "delete"]
  /\ UNCHANGED <<server, ever, safe>>

Search(j) ==
  /\ job[j].at = "search" /\ Searched(j, Dir[job[j].file])
  /\ \E page \in Pages(Dir[job[j].file]) :
       job' = [job EXCEPT ![j].found = Found(j, page),
                          ![j].at = IF Found(j, page) = {} THEN "post" ELSE "delete"]
  /\ UNCHANGED <<server, ever, safe>>

MutDeletedIsDone(j, ok) ==
  /\ Call(j, "delete", ok)
  /\ \E o \in job[j].found :
       /\ store' = IF ok THEN [store EXCEPT ![o[1]] = @ \ {o[2]}] ELSE store
       /\ IF job[j].found = {o} THEN Proceed(j)
          ELSE job' = [job EXCEPT ![j].found = @ \ {o}]
  /\ UNCHANGED <<lists, ref, feed, ran, ever, safe>>

Delete(j, ok) ==
  /\ Call(j, "delete", ok)
  /\ \E o \in job[j].found :
       /\ store' = IF ok THEN [store EXCEPT ![o[1]] = @ \ {o[2]}] ELSE store
       /\ job' = [job EXCEPT ![j].found = @ \ {o},
                             ![j].at = IF job[j].found = {o} THEN "post" ELSE "delete"]
  /\ UNCHANGED <<lists, ref, feed, ran, ever, safe>>

(* delete_existing_agent_tool (which, forced, takes the tool from every    *)
(* agent), delete_existing_skill, delete_existing_agent.                   *)
Remove(j, ok) ==
  LET f == job[j].file
  IN  /\ Call(j, "remove", ok)
      /\ store' = IF ok THEN [store EXCEPT ![f] = {}] ELSE store
      /\ lists' = CASE ok /\ Dir[f] = "tools"  -> [a \in Agents |-> [lists[a] EXCEPT ![f] = 0]]
                    [] ok /\ Dir[f] = "agents" -> [lists EXCEPT ![f] = NoGear]
                    [] OTHER                   -> lists
      /\ Goto(j, "post")
      /\ UNCHANGED <<ref, feed, ran, ever, safe>>

(* What is made with an id of the file's choosing is refused while there   *)
(* is one already.                                                         *)
Taken(f) == f \in Pinned /\ store[f] # {}

AfterPost(j) ==
  LET f == job[j].file
  IN  CASE Dir[f] = "ml"                                              -> Goto(j, "open")
        [] Dir[f] = "workflows" /\ "superdemo-authrun" \in Tags[f]    -> Goto(j, "run")
        [] Dir[f] \in {"tools", "skills"} /\ job[j].adds # {}         -> Goto(j, "get")
        [] OTHER                                                      -> Proceed(j)

(* A workflow tool gets the id of the workflow of its name, if the list    *)
(* made before the first tool has one; else it keeps the file's.           *)
Wire(j) ==
  LET f       == job[j].file
      matches == {o \in job[j].found : Name[o[1]] = Name[f]}
  IN  IF matches = {} THEN ref' = [ref EXCEPT ![f] = {}]
      ELSE \E o \in matches : ref' = [ref EXCEPT ![f] = {o}]

(* The POST (for ml the PUT) that makes the object.                        *)
Post(j, ok) ==
  LET f    == job[j].file
      made == ok /\ ~Taken(f)
  IN  /\ Call(j, "post", ok)
      /\ StoreIs(IF made THEN [store EXCEPT ![f] = @ \cup {j}] ELSE store)
      /\ IF made /\ Dir[f] = "tools" THEN Wire(j) ELSE ref' = ref
      /\ lists' = IF made /\ Dir[f] = "agents"
                  THEN [lists EXCEPT ![f] = [g \in Gear |-> IF g \in Listed[f] THEN 1 ELSE 0]]
                  ELSE lists
      /\ AfterPost(j)
      /\ UNCHANGED <<feed, ran, safe>>

(* load_ml opens the detector and starts its datafeed; each is refused     *)
(* unless the one before was done.                                         *)
Open(j, ok) ==
  LET f == job[j].file
  IN  /\ Call(j, "open", ok)
      /\ feed' = IF ok /\ store[f] # {} /\ feed[f] = "closed"
                 THEN [feed EXCEPT ![f] = "opened"] ELSE feed
      /\ Goto(j, "start")
      /\ UNCHANGED <<store, lists, ref, ran, ever, safe>>

StartFeed(j, ok) ==
  LET f == job[j].file
  IN  /\ Call(j, "start", ok)
      /\ feed' = IF ok /\ feed[f] = "opened" THEN [feed EXCEPT ![f] = "started"] ELSE feed
      /\ Proceed(j)
      /\ UNCHANGED <<store, lists, ref, ran, ever, safe>>

(* run_workflow: search, and call the first of that name; by then it may   *)
(* have been deleted.                                                      *)
run_workflow(j) ==
  /\ job[j].at = "run" /\ Searched(j, "workflows")
  /\ \E page \in Pages("workflows") :
       IF Found(j, page) = {} THEN Proceed(j)
       ELSE \E o \in Found(j, page) :
              job' = [job EXCEPT ![j].found = {o}, ![j].at = "launch"]
  /\ UNCHANGED <<server, ever, safe>>

Launch(j, ok) ==
  /\ Call(j, "launch", ok)
  /\ ran' = IF ok THEN ran \cup {o \in job[j].found : o[2] \in store[o[1]]} ELSE ran
  /\ Proceed(j)
  /\ UNCHANGED <<store, lists, ref, feed, ever, safe>>

(* Fetch an agent, to store it with more tools or skills than it had.      *)
Get(j) ==
  /\ job[j].at = "get"
  /\ \E a \in job[j].adds :
       job' = [job EXCEPT ![j].at = "set", ![j].agent = a, ![j].adds = @ \ {a},
                          ![j].held = lists[a]]
  /\ UNCHANGED <<server, faults, history>>

(* What it is stored with: load_agent_tools and load_skills append to the  *)
(* list of their kind, load_agents joins both lists with those of its file *)
(* and keeps each entry once.                                              *)
MutNewListsFromFile(J) ==
  [g \in Gear |->
    IF J.file \in Shared THEN (IF g \in Listed[J.file] THEN 1 ELSE 0)
    ELSE IF g = J.file THEN J.held[g] + 1
    ELSE IF Kind(g) = Dir[J.file] THEN J.held[g]
    ELSE lists[J.agent][g]]

MutNewListsAppend(J) ==
  [g \in Gear |->
    IF J.file \in Shared THEN J.held[g] + (IF g \in Listed[J.file] THEN 1 ELSE 0)
    ELSE IF g = J.file THEN J.held[g] + 1
    ELSE IF Kind(g) = Dir[J.file] THEN J.held[g]
    ELSE lists[J.agent][g]]

NewLists(J) ==
  [g \in Gear |->
    IF J.file \in Shared THEN (IF J.held[g] > 0 \/ g \in Listed[J.file] THEN 1 ELSE 0)
    ELSE IF g = J.file THEN J.held[g] + 1
    ELSE IF Kind(g) = Dir[J.file] THEN J.held[g]
    ELSE lists[J.agent][g]]

Set(j, ok) ==
  LET J == job[j]
  IN  /\ Call(j, "set", ok)
      /\ lists' = IF ok THEN [lists EXCEPT ![J.agent] = NewLists(J)] ELSE lists
      /\ IF J.adds # {} THEN job' = [job EXCEPT ![j].at = "get", ![j].agent = NoFile,
                                                ![j].held = NoGear]
         ELSE Proceed(j)
      /\ UNCHANGED <<store, ref, feed, ran, ever, safe>>

(* Somebody gives a shared agent a skill of their own, as a job may be     *)
(* holding a copy of its lists (bound: one agent has one at a time).       *)
Edit(a) ==
  /\ a \in Shared /\ \A b \in Agents : lists[b][Foreign] = 0
  /\ lists' = [lists EXCEPT ![a][Foreign] = 1]
  /\ safe' = IF \E j \in Jobs : job[j].agent = a THEN safe ELSE safe \cup {a}
  /\ UNCHANGED <<store, ref, feed, ran, job, faults, disturbed, ever>>

Loading(j) ==
  \/ List(j) \/ Search(j) \/ Get(j) \/ run_workflow(j)
  \/ \E ok \in BOOLEAN : \/ Put(j, ok) \/ Delete(j, ok) \/ Remove(j, ok) \/ Post(j, ok)
                         \/ Open(j, ok) \/ StartFeed(j, ok) \/ Launch(j, ok)
                         \/ Set(j, ok)

Next ==
  \/ \E j \in Jobs : Loading(j) \/ Die(j) \/ \E action \in Programs : Start(j, action)
  \/ \E a \in Agents : Edit(a)

Spec == Init /\ [][Next]_vars

-----------------------------------------------------------------------------
(* Type correctness; a job deletes only while it has found something.      *)
TypeOK ==
  /\ store \in [Files -> SUBSET (0 .. MaxJobs)]
  /\ lists \in [Agents -> [Gear -> 0 .. MaxJobs + 1]]
  /\ ref \in [Files -> SUBSET (Files \X Jobs)]
  /\ feed \in [Files -> {"closed", "opened", "started"}]
  /\ ran \subseteq Files \X Jobs
  /\ faults \in 0 .. MaxFaults /\ disturbed \subseteq Jobs /\ safe \subseteq Shared
  /\ \A j \in Jobs :
       /\ job[j].at \in Calls \cup {"idle", "done", "dead"}
       /\ job[j].at = "delete" => job[j].found # {}
       /\ job[j].at = "set" <=> job[j].agent # NoFile

(* A file's loader, by the first call it makes. *)
FirstIs(f, first) == \E k \in 1 .. Len(Load) : Load[k] = Loader(Dir[f], first)

(* What job j, having loaded everything, should have left on the server.   *)
EachFileIsThere(j) ==
  \A f \in Files \ Shared :
    /\ FirstIs(f, "put") \/ FirstIs(f, "remove") => store[f] = {j}
    /\ FirstIs(f, "post") => IF f \in Pinned THEN Cardinality(store[f]) = 1
                                             ELSE j \in store[f]

EachNameIsThereOnce(j) ==
  \A f \in Files :
    FirstIs(f, "search") => \E g \in Same(f) : /\ store[g] = {j}
                                               /\ \A h \in Same(f) \ {g} : store[h] = {}

ToolsAreWired ==
  \A f \in Files : Dir[f] = "tools" =>
    \A w \in Files : Dir[w] = "workflows" /\ Name[w] = Name[f] =>
      ref[f] # {} /\ \A o \in ref[f] : o[2] \in store[o[1]]

(* load_agents makes a set of an agent's list, load_skills appends to it.  *)
AgentsAreEquipped ==
  \A a \in Agents, g \in Gear \ {Foreign} :
    /\ lists[a][g] > 0 <=> (a \in Files /\ g \in Listed[a]) \/ a \in AddTo[g]
    /\ a \in Files => lists[a][g] <= 1

FeedsAreStarted == \A f \in Files : Dir[f] = "ml" => feed[f] = "started"

AuthrunsRan(j) ==
  \A f \in Files : Dir[f] = "workflows" /\ "superdemo-authrun" \in Tags[f] =>
    \E g \in Same(f) : <<g, j>> \in ran

(* A job that loaded everything with no call refused, nobody else loading  *)
(* and no search cut short leaves what the files ask for, whatever earlier *)
(* jobs left half done.  What is put, removed or searched for before it is *)
(* made is there once and new, what is posted under an id of the file's    *)
(* choosing once, and what is only posted, as every rule is, new beside    *)
(* those of earlier loads; tools call a workflow that exists, detectors    *)
(* run, and each agent has the tools and skills it should and no others,   *)
(* once each if its own file is loaded: a skill added to an agent of       *)
(* Kibana's that no file loads may be listed once for every load.          *)
UndisturbedLoadIsComplete ==
  \A j \in Jobs :
    /\ job[j].at = "done" /\ job[j].action = "load" /\ j \notin disturbed
    /\ \A i \in Jobs : i > j => job[i] = Idle
    /\ Running = {}
    => /\ EachFileIsThere(j) /\ EachNameIsThereOnce(j) /\ ToolsAreWired
       /\ AgentsAreEquipped /\ FeedsAreStarted /\ AuthrunsRan(j)

(* The loader deletes an object before it makes the new one, but one at a  *)
(* time: of the names that were ever loaded, no more are missing than      *)
(* calls failed or jobs died, and one for each job between the two.        *)
OneAssetAtATime ==
  LET missing == {k \in ever : \A f \in Files : Key(f) = k => store[f] = {}}
      between == {j \in Jobs : job[j].at \in {"delete", "post"}}
  IN  Cardinality(missing) <= faults + Cardinality(between)

(* What somebody else gave to a shared agent stays, unless it was given    *)
(* while a job held a copy of the agent: fetching and storing are two      *)
(* calls, and between them the job does not see it.                        *)
ForeignEntriesSurvive == \A a \in safe : lists[a][Foreign] > 0
=============================================================================

---------------------------- MODULE ModelManager ----------------------------
(***************************************************************************)
(* The life cycle of a model: the registry of the model manager, the       *)
(* sessions of the ONNX Runtime backend, and the workers that resolve a    *)
(* model and then infer with it.                                           *)
(*                                                                         *)
(* The registry is keyed by the name in the request, the sessions by the   *)
(* model_name inside the configuration file, and nothing compares the two. *)
(* The registry has no lock: the operations below are those of one server  *)
(* thread, one after the other, with the workers reading in between.  Of   *)
(* the calls that are refused and change nothing one is an action, the     *)
(* second loading of a name; the others are left out.                      *)
(***************************************************************************)
EXTENDS FiniteSets

CONSTANTS
    Names,      \* model names
    NoName,
    Confs,      \* contents of configuration files: ModelConf
    NoConf,     \* the null shared_ptr
    NameIn,     \* [Confs -> Names], the field model_name
    FileOf,     \* [Names -> SUBSET Confs]: what <name>.json may hold, in time
    Workers

ASSUME NamesAssumption == NoName \notin Names
ASSUME ConfsAssumption == /\ NoConf \notin Confs
                          /\ NameIn \in [Confs -> Names]
                          /\ FileOf \in [Names -> SUBSET Confs]

VARIABLES
    model_registry,     \* [state, conf] of each name
    sessions,           \* the conf each session was built from, by its name
    loading,            \* the model between its session and its state,
    unloading,          \* on the way up and on the way down
    request,            \* the model each worker has resolved, NoName at rest
    meta,               \* the conf that came with it
    session             \* the session it has found and runs

managerVars == <<model_registry, loading, unloading>>
workerVars  == <<request, meta, session>>
vars        == <<managerVars, sessions, workerVars>>

ModelState == {"REGISTERED", "LOADED", "ENABLED", "FAILED"}

\* What resolveModel answers for a name the registry does not hold.
Unknown == [state |-> "FAILED", conf |-> NoConf]

Init ==
    /\ model_registry = [n \in Names |-> Unknown]
    /\ sessions = [n \in Names |-> NoConf]
    /\ loading = NoName
    /\ unloading = NoName
    /\ request = [w \in Workers |-> NoName]
    /\ meta = [w \in Workers |-> NoConf]
    /\ session = [w \in Workers |-> NoConf]

-----------------------------------------------------------------------------
\* The server thread.

AtRest == loading = NoName /\ unloading = NoName

ChangeState(n, from, to) ==
    /\ AtRest
    /\ model_registry[n].state = from
    /\ model_registry' = [model_registry EXCEPT ![n].state = to]

\* The file is read at the first registration only.
RegisterModel(n) ==
    /\ AtRest
    /\ model_registry[n] = Unknown
    /\ \E conf \in FileOf[n] :
          model_registry' = [model_registry EXCEPT ![n] = [state |-> "REGISTERED", conf |-> conf]]
    /\ UNCHANGED <<sessions, loading, unloading, workerVars>>

\* Slip: the test of the state the other way round.
UnregisterModel_OnlyRegistered(n) ==
    /\ AtRest
    /\ model_registry[n].state = "REGISTERED"
    /\ model_registry' = [model_registry EXCEPT ![n] = Unknown]
    /\ UNCHANGED <<sessions, loading, unloading, workerVars>>

\* Of the models it knows it refuses those that are REGISTERED.  The session
\* of a loaded one stays with the backend.
UnregisterModel(n) ==
    /\ AtRest
    /\ model_registry[n].state \in {"LOADED", "ENABLED"}
    /\ model_registry' = [model_registry EXCEPT ![n] = Unknown]
    /\ UNCHANGED <<sessions, loading, unloading, workerVars>>

\* Slip: an existing session is replaced.
LoadSession_Replaces(n) ==
    LET conf == model_registry[n].conf
    IN  /\ AtRest
        /\ model_registry[n].state = "REGISTERED"
        /\ sessions' = [sessions EXCEPT ![NameIn[conf]] = conf]
        /\ loading' = n
        /\ UNCHANGED <<model_registry, unloading, workerVars>>

\* loadModel, first half: the backend refuses a name that has a session.
LoadSession(n) ==
    LET conf == model_registry[n].conf
    IN  /\ AtRest
        /\ model_registry[n].state = "REGISTERED"
        /\ sessions[NameIn[conf]] = NoConf
        /\ sessions' = [sessions EXCEPT ![NameIn[conf]] = conf]
        /\ loading' = n
        /\ UNCHANGED <<model_registry, unloading, workerVars>>

\* "already loaded": answered, with no change.
LoadRefused(n) ==
    /\ AtRest
    /\ model_registry[n].state = "REGISTERED"
    /\ sessions[NameIn[model_registry[n].conf]] # NoConf
    /\ UNCHANGED vars

\* Slip: no warmup.
LoadFinish_NoWarmup ==
    /\ loading # NoName
    /\ model_registry' = [model_registry EXCEPT ![loading].state = "LOADED"]
    /\ loading' = NoName
    /\ UNCHANGED <<sessions, unloading, workerVars>>

\* loadModel, second half: warmup looks for a session under the other name.
LoadFinish ==
    /\ loading # NoName
    /\ model_registry' = [model_registry EXCEPT ![loading].state =
                             IF sessions[loading] # NoConf THEN "LOADED" ELSE @]
    /\ loading' = NoName
    /\ UNCHANGED <<sessions, unloading, workerVars>>

\* unloadModel, first half: a worker may miss the session of a model that is
\* still LOADED.
UnloadSession(n) ==
    /\ AtRest
    /\ model_registry[n].state = "LOADED"
    /\ sessions[n] # NoConf
    /\ sessions' = [sessions EXCEPT ![n] = NoConf]
    /\ unloading' = n
    /\ UNCHANGED <<model_registry, loading, workerVars>>

UnloadFinish ==
    /\ unloading # NoName
    /\ model_registry' = [model_registry EXCEPT ![unloading].state = "REGISTERED"]
    /\ unloading' = NoName
    /\ UNCHANGED <<sessions, loading, workerVars>>

EnableModel(n) ==
    /\ ChangeState(n, "LOADED", "ENABLED")
    /\ UNCHANGED <<sessions, loading, unloading, workerVars>>

DisableModel(n) ==
    /\ ChangeState(n, "ENABLED", "LOADED")
    /\ UNCHANGED <<sessions, loading, unloading, workerVars>>

-----------------------------------------------------------------------------
\* A worker in execute() and infer().

\* execute() goes on with its copy of an ENABLED entry.
ResolveModel(w, n) ==
    /\ request[w] = NoName
    /\ model_registry[n].state = "ENABLED"
    /\ request' = [request EXCEPT ![w] = n]
    /\ meta' = [meta EXCEPT ![w] = model_registry[n].conf]
    /\ UNCHANGED <<managerVars, sessions, session>>

\* "model session not found": infer() fails.
InferNoSession(w) ==
    /\ request[w] # NoName
    /\ session[w] = NoConf
    /\ sessions[request[w]] = NoConf
    /\ request' = [request EXCEPT ![w] = NoName]
    /\ meta' = [meta EXCEPT ![w] = NoConf]
    /\ UNCHANGED <<managerVars, sessions, session>>

\* The session is shared: it outlives its entry while a worker runs it.
FindSession(w) ==
    /\ request[w] # NoName
    /\ session[w] = NoConf
    /\ sessions[request[w]] # NoConf
    /\ session' = [session EXCEPT ![w] = sessions[request[w]]]
    /\ UNCHANGED <<managerVars, sessions, request, meta>>

\* infer() returns, whatever the model made of the input.
InferReturns(w) ==
    /\ session[w] # NoConf
    /\ request' = [request EXCEPT ![w] = NoName]
    /\ meta' = [meta EXCEPT ![w] = NoConf]
    /\ session' = [session EXCEPT ![w] = NoConf]
    /\ UNCHANGED <<managerVars, sessions>>

-----------------------------------------------------------------------------
Manager(n) ==
    \/ RegisterModel(n) \/ UnregisterModel(n) \/ LoadSession(n) \/ LoadRefused(n)
    \/ UnloadSession(n) \/ EnableModel(n) \/ DisableModel(n)

Worker(w) ==
    \/ \E n \in Names : ResolveModel(w, n)
    \/ InferNoSession(w) \/ FindSession(w) \/ InferReturns(w)

Next ==
    \/ \E n \in Names : Manager(n)
    \/ LoadFinish \/ UnloadFinish
    \/ \E w \in Workers : Worker(w)

Spec == Init /\ [][Next]_vars

-----------------------------------------------------------------------------
(***************************************************************************)
(* Every variable keeps its type.                                          *)
(***************************************************************************)
TypeOK ==
    /\ model_registry \in [Names -> [state : ModelState, conf : Confs \cup {NoConf}]]
    /\ sessions \in [Names -> Confs \cup {NoConf}]
    /\ loading \in Names \cup {NoName}
    /\ unloading \in Names \cup {NoName}
    /\ request \in [Workers -> Names \cup {NoName}]
    /\ meta \in [Workers -> Confs \cup {NoConf}]
    /\ session \in [Workers -> Confs \cup {NoConf}]

\* Not while it is taken down.
IsLoaded(n) == model_registry[n].state \in {"LOADED", "ENABLED"} /\ unloading # n

(***************************************************************************)
(* A model the registry calls ENABLED has a session, and a LOADED one that *)
(* is not being unloaded has one too, whatever names the configuration     *)
(* files contain: a worker that has just resolved a model can miss the     *)
(* session only because it has been taken down since.                      *)
(***************************************************************************)
LoadedHasSession ==
    \A n \in Names :
        IsLoaded(n) \/ model_registry[n].state = "ENABLED" => sessions[n] # NoConf

(***************************************************************************)
(* A loaded model whose file gives it its own name is served by a session  *)
(* built from the configuration in the registry, even where the file of    *)
(* another model claims the same name and was loaded before.               *)
(***************************************************************************)
ServesItsConf ==
    \A n \in Names :
        IsLoaded(n) /\ NameIn[model_registry[n].conf] = n => sessions[n] = model_registry[n].conf

(***************************************************************************)
(* A worker never runs a session of another version of the file than the   *)
(* one it resolved, provided that file and no other uses that name.  It    *)
(* rests on unregisterModel refusing REGISTERED models: a name that has    *)
(* been unloaded keeps its configuration.                                  *)
(***************************************************************************)
OwnsItsName(n) == \A m \in Names : \A conf \in FileOf[m] : NameIn[conf] = n <=> m = n

RunsWhatItResolved ==
    \A w \in Workers :
        session[w] # NoConf /\ OwnsItsName(request[w]) => session[w] = meta[w]

(***************************************************************************)
(* A session whose model has been unregistered stays for ever, and while   *)
(* its file and no other uses that name the model is never loaded again:   *)
(* load is refused ("already loaded") and so is unload.                    *)
(***************************************************************************)
Orphan(n) == sessions[n] # NoConf /\ ~ IsLoaded(n) /\ loading # n

OrphansAreStuck == [][\A n \in Names : Orphan(n) /\ OwnsItsName(n) => Orphan(n)']_vars
=============================================================================

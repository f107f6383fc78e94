------------------------- MODULE ModelManagerProofs --------------------------
(***************************************************************************)
(* Theorems about the life cycle of models, for any set of models, any     *)
(* contents of their files and any number of workers.                      *)
(***************************************************************************)
EXTENDS ModelManager, TLAPS

(***************************************************************************)
(* The registry holds a configuration read from the model's file exactly   *)
(* when it holds the model, and a session is kept under the name in the    *)
(* file it was built from.                                                 *)
(***************************************************************************)
KeysAgree ==
    /\ \A n \in Names : \/ model_registry[n] = Unknown
                        \/ /\ model_registry[n].state # "FAILED"
                           /\ model_registry[n].conf \in FileOf[n]
    /\ \A n \in Names : sessions[n] # NoConf => NameIn[sessions[n]] = n

\* Between the two halves of loadModel the session exists and the state waits.
LoadingHasSession ==
    loading # NoName => LET entry == model_registry[loading]
                        IN  /\ entry.state = "REGISTERED"
                            /\ sessions[NameIn[entry.conf]] = entry.conf

\* Between the two halves of unloadModel it is the other way round.
UnloadingHasNone ==
    unloading # NoName => model_registry[unloading].state = "LOADED" /\ sessions[unloading] = NoConf

(***************************************************************************)
(* While a worker is about a model whose name is its own, the session of   *)
(* that name is the one the worker resolved, or there is none and the      *)
(* registry still holds the configuration it would be built from again.    *)
(***************************************************************************)
ResolvedStays ==
    \A w \in Workers :
        IF request[w] = NoName
          THEN session[w] = NoConf
          ELSE /\ meta[w] # NoConf
               /\ OwnsItsName(request[w]) =>
                     \/ sessions[request[w]] = meta[w]
                     \/ /\ sessions[request[w]] = NoConf
                        /\ model_registry[request[w]].conf = meta[w]

IInv ==
    /\ TypeOK /\ KeysAgree /\ LoadingHasSession /\ UnloadingHasNone
    /\ loading = NoName \/ unloading = NoName
    /\ LoadedHasSession /\ ServesItsConf
    /\ ResolvedStays /\ RunsWhatItResolved

LEMMA InitIInv == Init => IInv
<1> USE NamesAssumption, ConfsAssumption
<1> SUFFICES ASSUME Init PROVE IInv  OBVIOUS
<1>1. TypeOK  BY DEF Init, TypeOK, Unknown, ModelState
<1>2. KeysAgree /\ LoadingHasSession /\ UnloadingHasNone /\ loading = NoName
  BY DEF Init, KeysAgree, LoadingHasSession, UnloadingHasNone
<1>3. LoadedHasSession /\ ServesItsConf
  BY DEF Init, LoadedHasSession, ServesItsConf, IsLoaded, Unknown
<1>4. ResolvedStays /\ RunsWhatItResolved  BY DEF Init, ResolvedStays, RunsWhatItResolved
<1> QED  BY <1>1, <1>2, <1>3, <1>4 DEF IInv

-----------------------------------------------------------------------------
\* The steps of the server thread.
LEMMA ManagerIInv ==
    ASSUME IInv, NEW n \in Names, Manager(n)
    PROVE  IInv'
<1> USE NamesAssumption, ConfsAssumption
<1> USE DEF IInv, TypeOK, KeysAgree, LoadingHasSession, UnloadingHasNone,
            LoadedHasSession, ServesItsConf, IsLoaded, AtRest,
            ResolvedStays, RunsWhatItResolved, OwnsItsName, ModelState, ChangeState, managerVars,
            workerVars
<1>1. CASE RegisterModel(n)  BY <1>1 DEF RegisterModel, Unknown
<1>2. CASE UnregisterModel(n)  BY <1>2 DEF UnregisterModel, Unknown
<1>3. CASE LoadSession(n)
  <2> DEFINE conf == model_registry[n].conf
  <2>1. /\ conf \in FileOf[n] /\ conf \in Confs /\ NameIn[conf] \in Names
        /\ sessions[NameIn[conf]] = NoConf
        /\ sessions' = [sessions EXCEPT ![NameIn[conf]] = conf]
        /\ loading' = n
        /\ UNCHANGED <<model_registry, unloading, workerVars>> /\ unloading = NoName
    BY <1>3 DEF LoadSession, Unknown
  <2> HIDE DEF conf
  <2>2. TypeOK' /\ KeysAgree' /\ LoadedHasSession' /\ RunsWhatItResolved' /\ UnloadingHasNone'
    BY <2>1
  <2>3. LoadingHasSession'  BY <1>3, <2>1 DEF LoadSession, conf
  <2>4. ServesItsConf'  BY <2>1
  <2>5. ResolvedStays'
    <3> SUFFICES ASSUME NEW w \in Workers, request[w] # NoName, OwnsItsName(request[w])
                 PROVE  \/ sessions'[request[w]] = meta[w]
                        \/ /\ sessions'[request[w]] = NoConf
                           /\ model_registry[request[w]].conf = meta[w]
      BY <2>1
    <3>1. request[w] \in Names /\ (NameIn[conf] = request[w] <=> n = request[w])
      BY <2>1
    <3>2. CASE n = request[w]  BY <2>1, <3>1, <3>2 DEF conf
    <3>3. CASE n # request[w]
      <4>1. sessions'[request[w]] = sessions[request[w]]  BY <2>1, <3>1, <3>3
      <4> QED  BY <4>1
    <3> QED  BY <3>2, <3>3
  <2>6. unloading' = NoName  BY <2>1
  <2> QED  BY <2>2, <2>3, <2>4, <2>5, <2>6
<1>4. CASE LoadRefused(n)  BY <1>4 DEF LoadRefused, vars
<1>5. CASE UnloadSession(n)  BY <1>5 DEF UnloadSession, Unknown
<1>6. CASE EnableModel(n)  BY <1>6 DEF EnableModel, Unknown
<1>7. CASE DisableModel(n)  BY <1>7 DEF DisableModel, Unknown
<1> QED  BY <1>1, <1>2, <1>3, <1>4, <1>5, <1>6, <1>7 DEF Manager

LEMMA LoadFinishIInv ==
    ASSUME IInv, LoadFinish \/ UnloadFinish
    PROVE  IInv'
<1> USE NamesAssumption, ConfsAssumption
<1> USE DEF IInv, TypeOK, KeysAgree, LoadingHasSession, UnloadingHasNone,
            LoadedHasSession, ServesItsConf, IsLoaded, AtRest,
            ResolvedStays, RunsWhatItResolved, OwnsItsName, ModelState, workerVars
<1>1. CASE LoadFinish  BY <1>1 DEF LoadFinish, Unknown
<1>2. CASE UnloadFinish  BY <1>2 DEF UnloadFinish, Unknown
<1> QED  BY <1>1, <1>2

LEMMA WorkerIInv ==
    ASSUME IInv, NEW w \in Workers, Worker(w)
    PROVE  IInv'
<1> USE NamesAssumption, ConfsAssumption
<1> USE DEF IInv, TypeOK, KeysAgree, LoadingHasSession, UnloadingHasNone,
            LoadedHasSession, ServesItsConf, IsLoaded, AtRest,
            ResolvedStays, RunsWhatItResolved, OwnsItsName, ModelState, managerVars
\* What a worker does not touch, and what only it can disturb.
<1>1. ASSUME UNCHANGED <<managerVars, sessions>>, TypeOK', ResolvedStays', RunsWhatItResolved'
      PROVE  IInv'
  BY <1>1
<1>2. ASSUME NEW n \in Names, ResolveModel(w, n) PROVE IInv'
  BY <1>1, <1>2 DEF ResolveModel, Unknown
<1>3. CASE InferNoSession(w)
  <2>1. TypeOK' /\ UNCHANGED <<managerVars, sessions>>  BY <1>3 DEF InferNoSession
  <2>2. ResolvedStays'  BY <1>3 DEF InferNoSession
  <2>3. RunsWhatItResolved'  BY <1>3 DEF InferNoSession
  <2> QED  BY <1>1, <2>1, <2>2, <2>3
<1>4. CASE FindSession(w)  BY <1>1, <1>4 DEF FindSession
<1>5. CASE InferReturns(w)
  <2>1. TypeOK' /\ UNCHANGED <<managerVars, sessions>>  BY <1>5 DEF InferReturns
  <2>2. ResolvedStays'  BY <1>5 DEF InferReturns
  <2>3. RunsWhatItResolved'  BY <1>5 DEF InferReturns
  <2> QED  BY <1>1, <2>1, <2>2, <2>3
<1> QED  BY <1>2, <1>3, <1>4, <1>5 DEF Worker

LEMMA StutterIInv == IInv /\ UNCHANGED vars => IInv'
  BY DEF IInv, TypeOK, KeysAgree, LoadingHasSession, UnloadingHasNone,
            LoadedHasSession, ServesItsConf, IsLoaded, AtRest,
         ResolvedStays, RunsWhatItResolved, OwnsItsName, vars, managerVars, workerVars

LEMMA NextIInv == IInv /\ [Next]_vars => IInv'
  BY ManagerIInv, LoadFinishIInv, WorkerIInv, StutterIInv DEF Next

THEOREM InvariantHolds == Spec => []IInv
  BY InitIInv, NextIInv, PTL DEF Spec

(***************************************************************************)
(* A model the registry calls ENABLED has a session, and so has a LOADED   *)
(* one that is not being unloaded, whatever names the files contain.       *)
(***************************************************************************)
THEOREM LoadedModelsHaveSessions == Spec => []LoadedHasSession
<1>1. IInv => LoadedHasSession  BY DEF IInv
<1> QED  BY InvariantHolds, <1>1, PTL

(***************************************************************************)
(* A loaded model that has its own name in its file is served by a session *)
(* built from the configuration in the registry.                           *)
(***************************************************************************)
THEOREM LoadedModelsServeTheirConf == Spec => []ServesItsConf
<1>1. IInv => ServesItsConf  BY DEF IInv
<1> QED  BY InvariantHolds, <1>1, PTL

(***************************************************************************)
(* No worker runs a session of another version than the one it resolved.   *)
(***************************************************************************)
THEOREM WorkersRunWhatTheyResolved == Spec => []RunsWhatItResolved
<1>1. IInv => RunsWhatItResolved  BY DEF IInv
<1> QED  BY InvariantHolds, <1>1, PTL

-----------------------------------------------------------------------------
\* No step of the server thread brings an orphaned session back into use.
LEMMA OrphanStep ==
    ASSUME IInv, [Next]_vars, NEW n \in Names, Orphan(n), OwnsItsName(n)
    PROVE  Orphan(n)'
<1> USE NamesAssumption, ConfsAssumption
<1> USE DEF Orphan, IsLoaded, AtRest, UnloadingHasNone, TypeOK, IInv, ChangeState, managerVars
<1>1. ASSUME NEW m \in Names, Manager(m) PROVE Orphan(n)'
  <2>1. CASE RegisterModel(m)  BY <1>1, <2>1 DEF RegisterModel
  <2>2. CASE UnregisterModel(m)  BY <1>1, <2>2 DEF UnregisterModel, Unknown
  <2>3. CASE LoadSession(m)
    <3>1. model_registry[m].conf \in FileOf[m]
      BY <2>3 DEF LoadSession, KeysAgree, Unknown
    <3>2. m # n /\ NameIn[model_registry[m].conf] # n
      BY <2>3, <3>1 DEF LoadSession, OwnsItsName
    <3> QED  BY <2>3, <3>2 DEF LoadSession
  <2>4. CASE LoadRefused(m)  BY <2>4 DEF LoadRefused, vars
  <2>5. CASE UnloadSession(m)  BY <2>5 DEF UnloadSession
  <2>6. CASE EnableModel(m)  BY <2>6 DEF EnableModel
  <2>7. CASE DisableModel(m)  BY <2>7 DEF DisableModel
  <2> QED  BY <1>1, <2>1, <2>2, <2>3, <2>4, <2>5, <2>6, <2>7 DEF Manager
<1>2. CASE LoadFinish \/ UnloadFinish  BY <1>2 DEF LoadFinish, UnloadFinish
<1>3. CASE \E w \in Workers : Worker(w)
  BY <1>3 DEF Worker, ResolveModel, InferNoSession, FindSession, InferReturns
<1>4. CASE UNCHANGED vars  BY <1>4 DEF vars
<1> QED  BY <1>1, <1>2, <1>3, <1>4 DEF Next

(***************************************************************************)
(* A model unregistered while loaded is never loaded again, as long as its *)
(* file and no other uses its name: whatever is called, its session stays  *)
(* and its state never goes beyond REGISTERED.                             *)
(***************************************************************************)
THEOREM OrphansStayStuck == Spec => OrphansAreStuck
<1>1. IInv /\ [Next]_vars
        => [\A n \in Names : Orphan(n) /\ OwnsItsName(n) => Orphan(n)']_vars
  BY OrphanStep
<1> QED  BY InvariantHolds, <1>1, PTL DEF Spec, OrphansAreStuck
=============================================================================

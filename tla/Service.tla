-------------------------------- MODULE Service --------------------------------
(***************************************************************************)
(* WWATPService: the backends, the frontends, the listeners and connectors *)
(* of one configuration, from the constructor to the destructor, with the  *)
(* composite backend and the mediator it builds at work in between.        *)
(*                                                                         *)
(* The configuration tree is a record: what a backend depends on, what a   *)
(* frontend uses, and the connection each of them is on.  Reading YAML and *)
(* the texts of the errors are left out.  A listener or a connector that   *)
(* cannot be opened ends the whole process, which no state of the service  *)
(* survives, so opening them succeeds here.                                *)
(***************************************************************************)
EXTENDS FiniteSets, CompositeBackend, Mediator

CONSTANTS Configs,    \* the configurations, see below
          NameOrder   \* the names of backends and frontends, in the order of std::map

(* A configuration is a record of                                          *)
(*   backends   [name -> [type, backend, mounts, spec]]                    *)
(*   frontends  [name -> [type, uses, spec]]                               *)
(*   before     the tree of the composite's root backend                   *)
(*   flavor     the kind of its mediator, see Mediator                     *)
(*   test       initialize(test_only)                                      *)
(*   again      the caller of initialize calls it again when it can        *)
(* where mounts lists the children of a composite: [child, path, prefix].  *)
Mounts == [child : STRING, path : Seq(Nat) \ {<<>>}, prefix : Seq(Nat)]
Composites(c) == {b \in DOMAIN c.backends : c.backends[b].mounts # <<>>}

ASSUME ConfigAssumption ==
  /\ NameOrder \in Seq(STRING) /\ IsInjective(NameOrder)
  /\ \A c \in Configs :
    /\ DOMAIN c.backends \cup DOMAIN c.frontends \subseteq Range(NameOrder)
    /\ DOMAIN c.before \subseteq Seq(Nat)
    /\ \A b \in DOMAIN c.backends : c.backends[b].mounts \in Seq(Mounts)
    /\ Cardinality(Composites(c)) <= 1 /\ (c.again => Composites(c) = {})
    /\ \A b \in Composites(c) : c.backends[b].type = "composite"

VARIABLES
  config,      \* the configuration
  phase,       \* how far the object has come
  degree,      \* topologicalSort: in_degree
  queue,       \* topologicalSort: the names with no dependency left
  order,       \* topologicalSort: the names sorted, and later not yet built
  attempt,     \* calls of initialize
  backends,    \* backends[b]: the attempt that built the backend in the map
  errors,      \* accumulated_errors.HasErrors()
  mounting,    \* the mounts of the composite under construction
  frontends,   \* frontends[f]: the attempt that built the frontend in the map
  waiting,     \* the frontends not yet constructed
  listeners,   \* quic_listeners_
  updaters,    \* updaters[spec]: the backends an updater owns
  initialized, \* initialized_
  running,     \* running_
  threads,     \* the servers and updaters whose thread runs
  dead,        \* history: objects destroyed, [name, attempt]
  dangling,    \* history: uses of destroyed objects, [user, type, attempt]
  misuse       \* history: started twice, or destroyed without stop

sortVars == <<degree, queue, order>>
madeVars == <<backends, frontends, listeners, updaters>>
endVars == <<dead, dangling, misuse>>
lifeVars == <<config, phase, sortVars, attempt, madeVars, errors, mounting, waiting,
              initialized, running, threads, endVars>>
vars == <<lifeVars, compVars, medVars>>

Names == DOMAIN config.backends
Rank(n) == CHOOSE k \in 1..Len(NameOrder) : NameOrder[k] = n

(* The names of S as an iteration over the std::map meets them.            *)
InOrder(S) ==
  LET among[k \in 0..Len(NameOrder)] ==
        IF k = 0 THEN <<>>
        ELSE IF NameOrder[k] \in S THEN Append(among[k - 1], NameOrder[k]) ELSE among[k - 1]
  IN  among[Len(NameOrder)]

NoMap == [x \in {} |-> 0]

Init ==
  /\ config \in Configs
  /\ phase = "new"
  /\ degree = NoMap /\ queue = <<>> /\ order = <<>>
  /\ attempt = 0
  /\ backends = NoMap /\ frontends = NoMap
  /\ listeners = {} /\ updaters = NoMap
  /\ errors = FALSE /\ mounting = <<>> /\ waiting = <<>>
  /\ initialized = FALSE /\ running = FALSE
  /\ threads = {}
  /\ dead = {} /\ dangling = {} /\ misuse = FALSE
  /\ CompositeInit(config.before)
  /\ MediatorInit([flavor |-> config.flavor, queued |-> \E b \in Names : config.backends[b].type = "threadsafe"])

Set(f, x, v) == [y \in DOMAIN f \cup {x} |-> IF y = x THEN v ELSE f[y]]

--------------------------------------------------------------------------------
(* topologicalSort.                                                        *)
getBackendDependencies(b) ==
  LET c == config.backends[b] IN
    IF c.type \in {"simple", "file"} THEN <<>>
    ELSE <<c.backend>> \o IF c.type = "composite" THEN [i \in 1..Len(c.mounts) |-> c.mounts[i].child]
                          ELSE <<>>

DependsOn(b) == Range(getBackendDependencies(b))

(* Every listed dependency counts, one listed twice counts twice.          *)
InDegree(b) == Len(getBackendDependencies(b))

Missing == \E b \in Names : ~(DependsOn(b) \subseteq Names)

Initialize ==
  /\ \/ phase = "new"
     \/ phase \in {"tested", "failed"} /\ config.again /\ attempt = 1
  /\ attempt' = attempt + 1
  /\ errors' = FALSE
  /\ \/ Missing /\ phase' = "failed" /\ UNCHANGED sortVars
     \/ /\ ~Missing
        /\ phase' = "sorting"
        /\ degree' = [b \in Names |-> InDegree(b)]
        /\ queue' = InOrder({b \in Names : InDegree(b) = 0})
        /\ order' = <<>>
  /\ UNCHANGED <<config, madeVars, mounting, waiting, initialized, running, threads, endVars, compVars, medVars>>

(* Mutant: a dependency is settled as soon as one of them is.              *)
SettledEarly(n) == IF Head(queue) \in DependsOn(n) THEN 0 ELSE degree[n]

(* std::find sees a dependency once.                                       *)
Settled(n) == IF Head(queue) \in DependsOn(n) THEN degree[n] - 1 ELSE degree[n]

SortStep ==
  /\ phase = "sorting" /\ queue # <<>>
  /\ order' = Append(order, Head(queue))
  /\ degree' = [n \in Names |-> Settled(n)]
  /\ queue' = Tail(queue) \o InOrder({n \in Names : Settled(n) = 0 /\ Settled(n) # degree[n]})
  /\ UNCHANGED <<config, phase, attempt, madeVars, errors, mounting, waiting, initialized, running, threads,
                 endVars, compVars, medVars>>

SortEnds ==
  /\ phase = "sorting" /\ queue = <<>>
  /\ phase' = IF Len(order) # Cardinality(Names) THEN "failed" ELSE "backends"
  /\ UNCHANGED <<config, sortVars, attempt, madeVars, errors, mounting, waiting, initialized, running, threads,
                 endVars, compVars, medVars>>

--------------------------------------------------------------------------------
(* constructBackends.  backends_[name] = backend destroys the backend of an *)
(* earlier attempt; an Http3ClientBackend belongs to its updater.          *)
Type(b) == config.backends[b].type
Owned(b) == Type(b) = "http3_client"

Made(b) ==
  /\ backends' = Set(backends, b, attempt)
  /\ dead' = IF b \in DOMAIN backends /\ ~Owned(b) THEN dead \cup {[name |-> b, attempt |-> backends[b]]} ELSE dead
  /\ order' = Tail(order)

Skip == order' = Tail(order) /\ UNCHANGED <<backends, dead>>

Buildable(b) == Type(b) # "unknown" /\ DependsOn(b) \subseteq DOMAIN backends

(* obtainHttp3ClientUpdater and addBackend. *)
Adopted(b) ==
  LET s == config.backends[b].spec
      mine == {[name |-> b, attempt |-> attempt]}
  IN  Set(updaters, s, IF s \in DOMAIN updaters THEN updaters[s] \cup mine ELSE mine)

BuildBackend ==
  LET b == Head(order) IN
  /\ phase = "backends" /\ order # <<>> /\ mounting = <<>>
  /\ errors' = (errors \/ ~Buildable(b))
  /\ \/ ~Buildable(b) /\ Skip /\ UNCHANGED <<updaters, mounting>>
     \/ /\ Buildable(b) /\ config.backends[b].mounts = <<>>
        /\ Made(b)
        /\ updaters' = IF Owned(b) THEN Adopted(b) ELSE updaters
        /\ UNCHANGED mounting
     \/ /\ Buildable(b) /\ config.backends[b].mounts # <<>>
        /\ mounting' = config.backends[b].mounts
        /\ UNCHANGED <<backends, dead, order, updaters>>
  /\ UNCHANGED <<config, phase, degree, queue, attempt, frontends, listeners, waiting, initialized,
                 running, threads, dangling, misuse, compVars, medVars>>

(* createCompositeBackend: the first mount that throws ends it.            *)
MountChild ==
  /\ phase = "backends" /\ mounting # <<>>
  /\ LET m == Head(mounting) IN
       \/ /\ mountBackend(m.path, m.prefix)
          /\ mounting' = Tail(mounting)
          /\ IF Len(mounting) = 1 THEN Made(Head(order)) ELSE UNCHANGED <<backends, dead, order>>
          /\ UNCHANGED errors
       \/ /\ ~Mountable(m.path)
          /\ errors' = TRUE /\ mounting' = <<>> /\ Skip
          /\ UNCHANGED compVars
  /\ UNCHANGED <<config, phase, degree, queue, attempt, frontends, listeners, updaters, waiting,
                 initialized, running, threads, dangling, misuse, medVars>>

BackendsDone ==
  /\ phase = "backends" /\ order = <<>>
  /\ phase' = IF errors THEN "failed" ELSE "frontends"
  /\ waiting' = InOrder(DOMAIN config.frontends)
  /\ UNCHANGED <<config, sortVars, attempt, madeVars, errors, mounting, initialized, running, threads,
                 endVars, compVars, medVars>>

--------------------------------------------------------------------------------
(* constructFrontends.  A server obtains its listener before anything else. *)
(* frontends_[name] = frontend destroys the frontend of an earlier attempt, *)
(* and the destructor of a mediator takes its listeners off its backends.  *)
Uses(f) == config.frontends[f].uses
Mediates(f) == config.frontends[f].type = "mediator"
Touched(f, n) == IF Mediates(f) THEN {[name |-> b, attempt |-> n] : b \in Uses(f)} ELSE {}
Lost(f, n) == {[user |-> f, type |-> Type(o.name), attempt |-> n] : o \in Touched(f, n) \cap dead}

BuildFrontend ==
  LET f == Head(waiting)
      ok == Uses(f) \subseteq DOMAIN backends
  IN
  /\ phase = "frontends" /\ waiting # <<>>
  /\ waiting' = Tail(waiting)
  /\ errors' = (errors \/ ~ok)
  /\ listeners' = IF Mediates(f) THEN listeners ELSE listeners \cup {config.frontends[f].spec}
  /\ frontends' = IF ok THEN Set(frontends, f, attempt) ELSE frontends
  /\ dangling' = IF ok /\ f \in DOMAIN frontends THEN dangling \cup Lost(f, frontends[f]) ELSE dangling
  /\ UNCHANGED <<config, phase, sortVars, attempt, backends, updaters, mounting, initialized, running, threads,
                 dead, misuse, compVars, medVars>>

(* In test mode the service is never initialized.  Otherwise the listeners *)
(* and the connectors are opened.                                          *)
InitializeEnds ==
  /\ phase = "frontends" /\ waiting = <<>>
  /\ phase' = IF errors THEN "failed" ELSE IF config.test /\ attempt = 1 THEN "tested" ELSE "ready"
  /\ initialized' = (phase' = "ready")
  /\ UNCHANGED <<config, sortVars, attempt, madeVars, errors, mounting, waiting, running, threads, endVars,
                 compVars, medVars>>

--------------------------------------------------------------------------------
(* start and stop.  A thread object that is assigned a second thread, or is *)
(* destroyed with one, ends the program (std::terminate).                  *)
Servers == {f \in DOMAIN frontends : ~Mediates(f)}
Startable == Servers \cup DOMAIN updaters

Start ==
  /\ phase = "ready"
  /\ IF threads = {} THEN threads' = Startable /\ running' = TRUE /\ UNCHANGED <<phase, misuse>>
     ELSE phase' = "terminated" /\ misuse' = TRUE /\ UNCHANGED <<threads, running>>
  /\ UNCHANGED <<config, sortVars, attempt, madeVars, errors, mounting, waiting, initialized, dead,
                 dangling, compVars, medVars>>

(* Mutant: only the frontends are stopped.                                 *)
JoinedFrontends == Servers

(* The threads stop joins: the updaters, then the frontends.               *)
Joined == DOMAIN updaters \cup Servers

Stop ==
  /\ phase = "ready"
  /\ threads' = threads \ Joined
  /\ running' = FALSE
  /\ UNCHANGED <<config, phase, sortVars, attempt, madeVars, errors, mounting, waiting, initialized,
                 endVars, compVars, medVars>>

(* One round of a server's thread, on a listener that may be gone.         *)
Gone(what) == [name |-> what, attempt |-> 0]

ServerRound(f) ==
  /\ f \in threads \cap Servers /\ phase # "terminated"
  /\ Gone(config.frontends[f].spec) \in dead
  /\ dangling' = dangling \cup {[user |-> f, type |-> "listener", attempt |-> attempt]}
  /\ UNCHANGED <<config, phase, sortVars, attempt, madeVars, errors, mounting, waiting, initialized,
                 running, threads, dead, misuse, compVars, medVars>>

(* One round of an updater's thread, over the local backends of its clients. *)
Orphaned(u) == {o \in updaters[u] : [o EXCEPT !.name = config.backends[@].backend] \in dead}

UpdaterRound(u) ==
  /\ u \in threads \cap DOMAIN updaters /\ phase # "terminated"
  /\ Orphaned(u) # {}
  /\ dangling' = dangling \cup {[user |-> u, type |-> "simple", attempt |-> o.attempt] : o \in Orphaned(u)}
  /\ UNCHANGED <<config, phase, sortVars, attempt, madeVars, errors, mounting, waiting, initialized,
                 running, threads, dead, misuse, compVars, medVars>>

--------------------------------------------------------------------------------
(* The destructor closes connectors and listeners if the service was       *)
(* initialized; a constructor that threw and a service that was only       *)
(* tested go straight to the members, which are destroyed from the last to *)
(* the first: updaters, connectors, listeners, frontends, backends.        *)
Destroy ==
  /\ phase \in {"ready", "tested", "failed"}
  /\ phase' = "members"
  /\ misuse' = (misuse \/ running)
  /\ UNCHANGED <<config, sortVars, attempt, madeVars, errors, mounting, waiting, initialized, running, threads,
                 dead, dangling, compVars, medVars>>

DropUpdaters ==
  /\ phase = "members"
  /\ IF threads \cap DOMAIN updaters # {} THEN phase' = "terminated" /\ UNCHANGED <<updaters, dead>>
     ELSE /\ phase' = "connections"
          /\ dead' = dead \cup UNION Range(updaters)
          /\ updaters' = NoMap
  /\ UNCHANGED <<config, sortVars, attempt, backends, frontends, listeners, errors, mounting, waiting,
                 initialized, running, threads, dangling, misuse, compVars, medVars>>

DropConnections ==
  /\ phase = "connections"
  /\ phase' = "users"
  /\ dead' = dead \cup {Gone(s) : s \in listeners}
  /\ listeners' = {}
  /\ UNCHANGED <<config, sortVars, attempt, backends, frontends, updaters, errors, mounting, waiting,
                 initialized, running, threads, dangling, misuse, compVars, medVars>>

(* A std::map is destroyed from the greatest key down.                     *)
DropFrontend ==
  \E f \in DOMAIN frontends :
    /\ phase = "users"
    /\ \A g \in DOMAIN frontends : Rank(g) <= Rank(f)
    /\ IF f \in threads THEN phase' = "terminated" /\ UNCHANGED <<frontends, dangling>>
       ELSE /\ frontends' = Without(frontends, f)
            /\ dangling' = dangling \cup Lost(f, frontends[f])
            /\ UNCHANGED phase
    /\ UNCHANGED <<config, sortVars, attempt, backends, listeners, updaters, errors, mounting, waiting,
                   initialized, running, threads, dead, misuse, compVars, medVars>>

DropBackends ==
  /\ phase = "users" /\ DOMAIN frontends = {} /\ DOMAIN backends # {}
  /\ dead' = dead \cup {[name |-> b, attempt |-> backends[b]] : b \in {b \in DOMAIN backends : ~Owned(b)}}
  /\ backends' = NoMap
  /\ UNCHANGED <<config, phase, sortVars, attempt, frontends, listeners, updaters, errors, mounting,
                 waiting, initialized, running, threads, dangling, misuse, compVars, medVars>>

--------------------------------------------------------------------------------
(* The backends in use, once the service is initialized.                   *)
UseComposite ==
  /\ phase = "ready" /\ \E b \in DOMAIN backends : Type(b) = "composite"
  /\ CompositeNext
  /\ UNCHANGED <<lifeVars, medVars>>

UseMediated ==
  /\ phase = "ready"
  /\ \E f \in DOMAIN frontends : Mediates(f) /\ \A b \in Uses(f) : ~Owned(b)
  /\ MediatorNext
  /\ UNCHANGED <<lifeVars, compVars>>

Next == \/ Initialize \/ SortStep \/ SortEnds \/ BuildBackend \/ MountChild \/ BackendsDone
        \/ BuildFrontend \/ InitializeEnds \/ Start \/ Stop \/ Destroy
        \/ (\E f \in DOMAIN frontends : ServerRound(f)) \/ (\E u \in DOMAIN updaters : UpdaterRound(u))
        \/ DropUpdaters \/ DropConnections \/ DropFrontend \/ DropBackends
        \/ UseComposite \/ UseMediated

Spec == Init /\ [][Next]_vars

--------------------------------------------------------------------------------
(* A reference for topologicalSort: the names can be ranked.               *)
Acyclic == \E rank \in [Names -> 1..Cardinality(Names)] :
             \A b \in Names : \A d \in DependsOn(b) \cap Names : rank[d] < rank[b]
ListedTwice == \E b \in Names : Cardinality(DependsOn(b)) # Len(getBackendDependencies(b))

(* Backends are built in an order in which each finds the ones it needs,   *)
(* and topologicalSort gives up exactly on a dependency that is missing or *)
(* on a circle (wwatp_service.cpp:413), unless one is listed twice, which  *)
(* is taken for a circle.                                                  *)
BuiltInDependencyOrder ==
  /\ \A b \in DOMAIN backends : DependsOn(b) \subseteq DOMAIN backends
  /\ phase \in {"backends", "frontends", "ready"} => ~Missing /\ Acyclic
  /\ phase = "failed" /\ ~errors => Missing \/ ~Acyclic \/ ListedTwice

(* Whatever the configuration and wherever the construction stopped, a     *)
(* destructor or a thread uses only objects that still exist and the       *)
(* program does not end in std::terminate.  Excepted are a service started *)
(* twice or destroyed without stop, a mediator on an Http3ClientBackend,   *)
(* which the updaters destroy before the frontends (wwatp_service.h:188),  *)
(* and what an earlier call of initialize made and a later one makes       *)
(* again: its mediators, and its clients, which their updaters keep.       *)
EndsCleanly ==
  ~misuse => /\ phase # "terminated"
             /\ \A d \in dangling : d.type = "http3_client" \/ d.attempt < attempt
================================================================================

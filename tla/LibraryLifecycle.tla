-------------------------- MODULE LibraryLifecycle --------------------------
(***************************************************************************)
(* Start and stop of the library: sqlite3_initialize and sqlite3_shutdown  *)
(* of main.c with sqlcipher_extra_init and sqlcipher_extra_shutdown of     *)
(* sqlcipher.c plugged in (SQLITE_EXTRA_INIT), the registry of crypto      *)
(* providers, and the codecs that threads attach and free meanwhile.       *)
(*                                                                         *)
(* A step of a thread is what it does between two points where another     *)
(* thread can see or disturb it.  SQLITE_MUTEX_STATIC_MASTER is the same   *)
(* mutex as SQLITE_MUTEX_STATIC_MAIN.  Memory is known by the              *)
(* initialisation it was allocated in, so that a pointer kept over a       *)
(* shutdown is told apart from one into the new heap.                      *)
(***************************************************************************)
EXTENDS Integers, FiniteSets

CONSTANTS
  Thread,
  AppProvider,  \* providers an application may register
  HeapSteps,    \* SQLCIPHER_PRIVATE_HEAP_SIZE_DEFAULT in units of .._STEP
  MaxCalls,     \* bound: calls of each thread
  MaxInits,     \* bound: initialisations of the process
  Failures,     \* a subset of {"early", "late"}: what may fail, see MayFail
  Null

VARIABLES
  pc, depth, run, rc, provider, \* per thread: where it is, and its locals
  codec,                        \* per thread: its codec_ctx, or Null
  calls,
  main,                         \* the holder of SQLITE_MUTEX_STATIC_MAIN
  pInitMutex, initHolder, nRefInitMutex,
  isInit, inProgress,           \* of sqlite3GlobalConfig
  sqlcipher_init, sqlcipher_static_mutex, sqlcipher_shield_mask,
  private_heap, private_heap_sz,
  default_provider, next,       \* the list of providers
  alive,                        \* the providers whose memory is allocated
  inits, lateFailure            \* history: an initialisation failed after the
                                \* built-in provider was registered

threadVars == <<pc, depth, run, rc, provider>>
mainVars == <<pInitMutex, initHolder, nRefInitMutex, isInit, inProgress>>
cipherVars == <<sqlcipher_init, sqlcipher_static_mutex, sqlcipher_shield_mask,
                private_heap, private_heap_sz>>
registry == <<default_provider, next, alive>>
history == <<inits, lateFailure>>
vars == <<threadVars, codec, calls, main, mainVars, cipherVars, registry, history>>

ASSUME BoundsAssumption ==
  /\ IsFiniteSet(Thread)
  /\ HeapSteps \in Nat \ {0} /\ MaxCalls \in Nat /\ MaxInits \in Nat \ {0}
  /\ Failures \subseteq {"early", "late"}
  /\ Null \notin Thread \cup AppProvider \cup (0 .. MaxInits)
  /\ AppProvider \cap (0 .. MaxInits) = {}

(* The built-in provider is known by the private heap it was allocated in. *)
Provider == AppProvider \cup 1 .. MaxInits

Init ==
  /\ pc = [t \in Thread |-> "idle"] /\ depth = [t \in Thread |-> 0]
  /\ run = [t \in Thread |-> FALSE] /\ rc = [t \in Thread |-> "OK"]
  /\ provider = [t \in Thread |-> Null] /\ codec = [t \in Thread |-> Null]
  /\ calls = [t \in Thread |-> 0]
  /\ main = Null /\ pInitMutex = FALSE /\ initHolder = Null /\ nRefInitMutex = 0
  /\ isInit = FALSE /\ inProgress = FALSE
  /\ sqlcipher_init = FALSE /\ sqlcipher_static_mutex = FALSE
  /\ sqlcipher_shield_mask = FALSE /\ private_heap = Null /\ private_heap_sz = HeapSteps
  /\ default_provider = Null /\ next = [p \in Provider |-> Null] /\ alive = {}
  /\ inits = 0 /\ lateFailure = FALSE

Goto(t, label) == pc' = [pc EXCEPT ![t] = label]
Result(t, code) == rc' = [rc EXCEPT ![t] = code]
(* What fails before a provider is registered, and what fails after it.    *)
MayFail(stage) == stage \in Failures
(* The providers on the list are those in every set that has the head and  *)
(* is closed under next.                                                   *)
Closed(S) == /\ default_provider \in S \cup {Null}
             /\ \A p \in S : next[p] \in S \cup {Null}
Registered == {p \in Provider : \A S \in SUBSET Provider : Closed(S) => p \in S}

-----------------------------------------------------------------------------
(* sqlite3_open calls sqlite3_initialize and then attaches a codec.        *)
sqlite3_initialize(t) ==
  /\ pc[t] = "idle" /\ codec[t] = Null /\ calls[t] < MaxCalls
  /\ calls' = [calls EXCEPT ![t] = @ + 1]
  /\ IF isInit THEN Goto(t, "return") ELSE Goto(t, "main1")
  /\ Result(t, "OK") /\ run' = [run EXCEPT ![t] = FALSE]
  /\ UNCHANGED <<depth, provider, codec, main, mainVars, cipherVars, registry, history>>

(* Mutant: a thread that finds the mutex there does not count itself.      *)
InitMutexRef_NotCounted(t) ==
  /\ pc[t] = "main1" /\ main = Null
  /\ \/ /\ pInitMutex' = TRUE
        /\ nRefInitMutex' = IF pInitMutex THEN nRefInitMutex ELSE nRefInitMutex + 1
        /\ Goto(t, "enter") /\ UNCHANGED rc
     \/ /\ MayFail("early") /\ ~pInitMutex
        /\ Result(t, "NOMEM") /\ Goto(t, "return") /\ UNCHANGED <<pInitMutex, nRefInitMutex>>
  /\ UNCHANGED <<depth, run, provider, codec, calls, main, initHolder, isInit, inProgress,
                 cipherVars, registry, history>>

(* The first section under the main mutex: allocate pInitMutex, count it.  *)
InitMutexRef(t) ==
  /\ pc[t] = "main1" /\ main = Null
  /\ \/ /\ pInitMutex' = TRUE /\ nRefInitMutex' = nRefInitMutex + 1
        /\ Goto(t, "enter") /\ UNCHANGED rc
     \/ /\ MayFail("early") /\ ~pInitMutex
        /\ Result(t, "NOMEM") /\ Goto(t, "return") /\ UNCHANGED <<pInitMutex, nRefInitMutex>>
  /\ UNCHANGED <<depth, run, provider, codec, calls, main, initHolder, isInit, inProgress,
                 cipherVars, registry, history>>

(* Mutant: a thread that waited for the mutex initialises once more.       *)
EnterInitMutex_Again(t) ==
  /\ pc[t] = "enter" /\ initHolder \in {Null, t}
  /\ initHolder' = t
  /\ IF ~inProgress
     THEN /\ inProgress' = TRUE
          /\ depth' = [depth EXCEPT ![t] = 1] /\ Goto(t, "main1")
     ELSE Goto(t, "leave") /\ UNCHANGED <<inProgress, depth>>
  /\ UNCHANGED <<run, rc, provider, codec, calls, main, pInitMutex, nRefInitMutex, isInit,
                 cipherVars, registry, history>>

(* Enter the recursive pInitMutex.  The first thread calls sqlite3_os_init, *)
(* which registers a VFS and so calls sqlite3_initialize again.            *)
EnterInitMutex(t) ==
  /\ pc[t] = "enter" /\ initHolder \in {Null, t}
  /\ initHolder' = t
  /\ IF ~isInit /\ ~inProgress
     THEN /\ inProgress' = TRUE
          /\ depth' = [depth EXCEPT ![t] = 1] /\ Goto(t, "main1")
     ELSE Goto(t, "leave") /\ UNCHANGED <<inProgress, depth>>
  /\ UNCHANGED <<run, rc, provider, codec, calls, main, pInitMutex, nRefInitMutex, isInit,
                 cipherVars, registry, history>>

(* The page cache, the VFS and the memory VFS are set up, or one fails.    *)
OsInit(t) ==
  /\ pc[t] = "os"
  /\ \/ isInit' = TRUE /\ run' = [run EXCEPT ![t] = TRUE] /\ UNCHANGED rc
     \/ MayFail("early") /\ Result(t, "NOMEM") /\ UNCHANGED <<isInit, run>>
  /\ inProgress' = FALSE /\ Goto(t, "leave")
  /\ UNCHANGED <<depth, provider, codec, calls, main, pInitMutex, initHolder, nRefInitMutex,
                 cipherVars, registry, history>>

LeaveInitMutex(t) ==
  /\ pc[t] = "leave"
  /\ initHolder' = IF depth[t] = 1 THEN t ELSE Null
  /\ Goto(t, "main2")
  /\ UNCHANGED <<depth, run, rc, provider, codec, calls, main, pInitMutex, nRefInitMutex,
                 isInit, inProgress, cipherVars, registry, history>>

(* The second section under the main mutex: the last one frees pInitMutex. *)
InitMutexUnref(t) ==
  /\ pc[t] = "main2" /\ main = Null
  /\ nRefInitMutex' = nRefInitMutex - 1
  /\ pInitMutex' = (pInitMutex /\ nRefInitMutex' > 0)
  /\ depth' = [depth EXCEPT ![t] = 0]
  /\ IF depth[t] = 1 THEN Goto(t, "os")
     ELSE IF run[t] THEN Goto(t, "extra") ELSE Goto(t, "return")
  /\ UNCHANGED <<run, rc, provider, codec, calls, main, initHolder, isInit, inProgress,
                 cipherVars, registry, history>>

-----------------------------------------------------------------------------
(* sqlcipher_extra_init, called after pInitMutex is left.                  *)
ExtraEnter(t) ==
  /\ pc[t] = "extra" /\ main = Null
  /\ IF sqlcipher_init THEN Goto(t, "return") /\ UNCHANGED main
     ELSE Goto(t, "mutexes") /\ main' = t
  /\ UNCHANGED <<depth, run, rc, provider, codec, calls, mainVars, cipherVars, registry, history>>

ExtraMutexes(t) ==
  /\ pc[t] = "mutexes"
  /\ sqlcipher_static_mutex' = TRUE
  /\ \/ Goto(t, "heap") /\ UNCHANGED rc
     \/ MayFail("early") /\ Result(t, "NOMEM") /\ Goto(t, "error")
  /\ UNCHANGED <<depth, run, provider, codec, calls, main, mainVars, sqlcipher_init,
                 sqlcipher_shield_mask, private_heap, private_heap_sz, registry, history>>

(* A size that cannot be had is reduced, for this and every later attempt. *)
ExtraHeap(t) ==
  /\ pc[t] = "heap"
  /\ \E sz \in 0 .. private_heap_sz :
       /\ sz < private_heap_sz => MayFail("early")
       /\ private_heap_sz' = sz
       /\ IF sz > 0 THEN /\ inits' = inits + 1 /\ private_heap' = inits'
                         /\ Goto(t, "provider") /\ UNCHANGED rc
          ELSE Result(t, "NOMEM") /\ Goto(t, "error") /\ UNCHANGED <<inits, private_heap>>
  /\ UNCHANGED <<depth, run, provider, codec, calls, main, mainVars, sqlcipher_init,
                 sqlcipher_static_mutex, sqlcipher_shield_mask, registry, lateFailure>>

(* Mutant: a provider that is on the list already is not taken out of it.  *)
sqlcipher_register_provider_NoPop(p, initOk) ==
  IF default_provider = p THEN UNCHANGED <<default_provider, next>>
  ELSE /\ next' = [next EXCEPT ![p] = default_provider]
       /\ default_provider' = IF p \in Registered \/ initOk THEN p ELSE default_provider

(* sqlcipher_register_provider, under SQLCIPHER_MUTEX_PROVIDER.  initOk is *)
(* what the provider's init function returns, if it is called.             *)
sqlcipher_register_provider(p, initOk) ==
  IF default_provider = p THEN UNCHANGED <<default_provider, next>>
  ELSE /\ next' = [q \in Provider |->
                     IF q = p THEN default_provider
                     ELSE IF q \in Registered /\ next[q] = p THEN next[p] ELSE next[q]]
       /\ default_provider' = IF p \in Registered \/ initOk THEN p ELSE default_provider

(* Without a provider the built-in one is allocated on the private heap,   *)
(* set up and registered; the local is cleared once that has succeeded.    *)
ExtraProvider(t) ==
  /\ pc[t] = "provider"
  /\ \/ /\ default_provider # Null /\ Goto(t, "seed") /\ UNCHANGED <<rc, provider, registry>>
     \/ /\ default_provider = Null
        /\ sqlcipher_register_provider(private_heap, TRUE)
        /\ alive' = alive \cup {private_heap} /\ Goto(t, "seed") /\ UNCHANGED <<rc, provider>>
     \/ /\ default_provider = Null /\ MayFail("early")
        /\ \/ UNCHANGED <<provider, registry>>
           \/ /\ provider' = [provider EXCEPT ![t] = private_heap]
              /\ alive' = alive \cup {private_heap}
              /\ sqlcipher_register_provider(private_heap, FALSE)
        /\ Result(t, "NOMEM") /\ Goto(t, "error")
  /\ UNCHANGED <<depth, run, codec, calls, main, mainVars, cipherVars, history>>

(* Mutant: the main mutex is still held when the extension is registered.  *)
ExtraFinish_HoldsMain(t) ==
  /\ pc[t] = "seed"
  /\ sqlcipher_shield_mask' = TRUE /\ sqlcipher_init' = TRUE /\ Goto(t, "auto")
  /\ UNCHANGED <<depth, run, rc, provider, codec, calls, main, mainVars, sqlcipher_static_mutex,
                 private_heap, private_heap_sz, registry, history>>

(* The provider seeds the generator and fills the mask.                    *)
ExtraFinish(t) ==
  /\ pc[t] = "seed"
  /\ \/ /\ sqlcipher_shield_mask' = TRUE /\ sqlcipher_init' = TRUE
        /\ main' = Null /\ Goto(t, "auto") /\ UNCHANGED <<rc, lateFailure>>
     \/ /\ MayFail("late") /\ sqlcipher_shield_mask' \in {sqlcipher_shield_mask, TRUE}
        /\ lateFailure' = TRUE
        /\ Result(t, "ERROR") /\ Goto(t, "error") /\ UNCHANGED <<sqlcipher_init, main>>
  /\ UNCHANGED <<depth, run, provider, codec, calls, mainVars, sqlcipher_static_mutex,
                 private_heap, private_heap_sz, registry, inits>>

(* sqlite3_auto_extension takes the main mutex itself.                     *)
AutoExtension(t) ==
  /\ pc[t] = "auto" /\ main = Null /\ Goto(t, "return")
  /\ UNCHANGED <<depth, run, rc, provider, codec, calls, main, mainVars, cipherVars, registry,
                 history>>

(* Mutant: the private heap is not freed.                                  *)
ExtraError_KeepsHeap(t) ==
  /\ pc[t] = "error"
  /\ alive' = alive \ {provider[t]} /\ provider' = [provider EXCEPT ![t] = Null]
  /\ sqlcipher_shield_mask' = FALSE /\ sqlcipher_static_mutex' = FALSE
  /\ main' = Null /\ Goto(t, "return")
  /\ UNCHANGED <<depth, run, rc, codec, calls, mainVars, sqlcipher_init, private_heap,
                 private_heap_sz, default_provider, next, history>>

(* The error path: what was allocated is freed, and with the private heap  *)
(* everything in it.                                                       *)
ExtraError(t) ==
  /\ pc[t] = "error"
  /\ alive' = alive \ {provider[t], private_heap}
  /\ provider' = [provider EXCEPT ![t] = Null]
  /\ private_heap' = Null /\ sqlcipher_shield_mask' = FALSE /\ sqlcipher_static_mutex' = FALSE
  /\ main' = Null /\ Goto(t, "return")
  /\ UNCHANGED <<depth, run, rc, codec, calls, mainVars, sqlcipher_init, private_heap_sz,
                 default_provider, next, history>>

-----------------------------------------------------------------------------
(* What sqlite3_initialize returned decides whether the open goes on.      *)
OpenFails(t) ==
  /\ pc[t] = "return" /\ rc[t] # "OK" /\ Goto(t, "idle")
  /\ UNCHANGED <<depth, run, rc, provider, codec, calls, main, mainVars, cipherVars, registry,
                 history>>

(* Mutant: a codec is attached before the library is initialised.          *)
sqlcipherCodecAttach_Unchecked(t) ==
  /\ pc[t] = "return" /\ rc[t] = "OK" /\ Goto(t, "idle")
  /\ codec' = [codec EXCEPT ![t] = [heap |-> private_heap, provider |-> default_provider]]
  /\ UNCHANGED <<depth, run, rc, provider, calls, main, mainVars, cipherVars, registry, history>>

(* The codec keeps pointers into the private heap and to the provider.     *)
sqlcipherCodecAttach(t) ==
  /\ pc[t] = "return" /\ rc[t] = "OK" /\ Goto(t, "idle")
  /\ codec' = [codec EXCEPT ![t] = IF sqlcipher_init
                 THEN [heap |-> private_heap, provider |-> default_provider] ELSE Null]
  /\ UNCHANGED <<depth, run, rc, provider, calls, main, mainVars, cipherVars, registry, history>>

sqlite3FreeCodecArg(t) ==
  /\ pc[t] = "idle" /\ codec[t] # Null
  /\ codec' = [codec EXCEPT ![t] = Null]
  /\ UNCHANGED <<threadVars, calls, main, mainVars, cipherVars, registry, history>>

(* An application allocates and registers a provider, or the one it has    *)
(* registered before, while no initialisation runs; it frees a new one     *)
(* whose registration fails.                                               *)
RegisterProvider(t, p) ==
  /\ pc[t] = "idle" /\ calls[t] < MaxCalls
  /\ \A u \in Thread : pc[u] \in {"idle", "return"}
  /\ calls' = [calls EXCEPT ![t] = @ + 1]
  /\ \E initOk \in BOOLEAN :
       /\ ~initOk => MayFail("early")
       /\ sqlcipher_register_provider(p, initOk)
       /\ alive' = IF initOk THEN alive \cup {p} ELSE alive
  /\ UNCHANGED <<threadVars, codec, main, mainVars, cipherVars, history>>

sqlcipher_extra_shutdown ==
  /\ sqlcipher_init' = FALSE
  /\ IF ~sqlcipher_init
     THEN UNCHANGED <<sqlcipher_shield_mask, private_heap, sqlcipher_static_mutex, registry>>
     ELSE /\ sqlcipher_shield_mask' = FALSE /\ private_heap' = Null
          /\ sqlcipher_static_mutex' = FALSE
          /\ alive' = alive \ Registered /\ default_provider' = Null /\ UNCHANGED next

(* sqlite3_shutdown "must only be called from a single thread", with all   *)
(* connections closed.                                                     *)
sqlite3_shutdown(t) ==
  /\ calls[t] < MaxCalls /\ inits < MaxInits
  /\ \A u \in Thread : pc[u] = "idle" /\ codec[u] = Null
  /\ calls' = [calls EXCEPT ![t] = @ + 1]
  /\ isInit' = FALSE
  /\ IF isInit THEN sqlcipher_extra_shutdown
     ELSE UNCHANGED <<sqlcipher_init, sqlcipher_shield_mask, private_heap,
                      sqlcipher_static_mutex, registry>>
  /\ UNCHANGED <<threadVars, codec, main, pInitMutex, initHolder, nRefInitMutex, inProgress,
                 private_heap_sz, history>>

(* The steps of a call of t that has begun.                                *)
Step(t) ==
  \/ InitMutexRef(t) \/ EnterInitMutex(t) \/ OsInit(t) \/ LeaveInitMutex(t)
  \/ InitMutexUnref(t) \/ ExtraEnter(t) \/ ExtraMutexes(t) \/ ExtraHeap(t)
  \/ ExtraProvider(t) \/ ExtraFinish(t) \/ AutoExtension(t) \/ ExtraError(t)
  \/ OpenFails(t) \/ sqlcipherCodecAttach(t)

Next ==
  \E t \in Thread : \/ Step(t) \/ sqlite3_initialize(t) \/ sqlite3FreeCodecArg(t)
                    \/ sqlite3_shutdown(t)
                    \/ \E p \in AppProvider : RegisterProvider(t, p)

Spec == Init /\ [][Next]_vars
(* A thread inside a call goes on running.                                 *)
FairSpec == Spec /\ \A t \in Thread : WF_vars(Step(t))

-----------------------------------------------------------------------------
Labels == {"idle", "main1", "enter", "os", "leave", "main2", "extra", "mutexes", "heap",
           "provider", "seed", "auto", "error", "return"}

TypeOK ==
  /\ pc \in [Thread -> Labels] /\ depth \in [Thread -> 0 .. 1] /\ run \in [Thread -> BOOLEAN]
  /\ rc \in [Thread -> {"OK", "NOMEM", "ERROR"}] /\ calls \in [Thread -> 0 .. MaxCalls]
  /\ provider \in [Thread -> Provider \cup {Null}]
  /\ codec \in [Thread -> [heap : 1 .. MaxInits, provider : Provider] \cup {Null}]
  /\ {main, initHolder} \subseteq Thread \cup {Null}
  /\ {pInitMutex, isInit, inProgress, sqlcipher_init, sqlcipher_static_mutex,
      sqlcipher_shield_mask} \subseteq BOOLEAN
  /\ nRefInitMutex \in 0 .. 2 * Cardinality(Thread)
  /\ private_heap \in 1 .. MaxInits \cup {Null} /\ private_heap_sz \in 0 .. HeapSteps
  /\ default_provider \in Provider \cup {Null} /\ next \in [Provider -> Provider \cup {Null}]
  /\ alive \subseteq Provider /\ inits \in 0 .. MaxInits /\ lateFailure \in BOOLEAN

(* pInitMutex is counted: it exists as long as a thread is going to enter, *)
(* holds or has just left it, and only then (the assert of                 *)
(* sqlite3Initialize, and the free that follows it).                       *)
InitMutexCounted ==
  LET inside == {t \in Thread : pc[t] \in {"enter", "leave", "main2"}}
      outer == {t \in Thread : depth[t] = 1 \/ pc[t] = "os"}
  IN  /\ nRefInitMutex = Cardinality(inside) + Cardinality(outer)
      /\ pInitMutex = (nRefInitMutex > 0)

(* Calls to the xInit methods and to sqlcipher_extra_init are serialised,  *)
(* although the latter runs outside pInitMutex.                            *)
OneInitialiser ==
  Cardinality({t \in Thread : pc[t] \in {"os", "extra", "mutexes", "heap", "provider", "seed",
                                         "auto", "error"} \/ depth[t] = 1}) <= 1

(* A codec that is attached points into the heap that is there and to a    *)
(* provider whose memory is allocated, and finds the mask and the mutexes, *)
(* whatever other threads initialise, register or fail to (the test of     *)
(* sqlcipher_init in sqlcipherCodecAttach).  A failure after the built-in  *)
(* provider is registered frees the heap under it, and is left out.        *)
CodecLive ==
  ~lateFailure => \A t \in Thread : codec[t] # Null =>
    /\ codec[t].heap = private_heap /\ codec[t].provider \in alive
    /\ sqlcipher_shield_mask /\ sqlcipher_static_mutex

(* The registry is a list without a repetition, in whatever order the      *)
(* application registers providers, again or anew, and initialisations     *)
(* fail (sqlcipher_register_provider; the loop of sqlcipher_extra_shutdown *)
(* frees each once), and before a late failure every provider on it is     *)
(* allocated.  Of what the head reaches, no two have the same next, none   *)
(* has the head as its next, and one has none: that is a list.             *)
RegistryIsList ==
  /\ \A p, q \in Registered : next[p] = next[q] => p = q
  /\ \A p \in Registered : next[p] # default_provider
  /\ Registered # {} => \E p \in Registered : next[p] = Null
  /\ (~lateFailure => Registered \subseteq alive)

(* Once the library is shut down, or was never initialised, nothing of it  *)
(* is left allocated, also after initialisations that failed half-way;     *)
(* a provider that stays is one the application has registered.            *)
NothingLeft ==
  (~isInit /\ ~inProgress /\ ~lateFailure) =>
    /\ private_heap = Null /\ ~sqlcipher_shield_mask /\ ~sqlcipher_static_mutex
    /\ alive = Registered /\ alive \subseteq AppProvider

(* Every call of sqlite3_initialize returns, and the open that made it     *)
(* ends: no thread waits for a mutex for ever, its own included.           *)
InitReturns == \A t \in Thread : (pc[t] # "idle") ~> (pc[t] = "idle")
=============================================================================

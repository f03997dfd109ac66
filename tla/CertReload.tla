------------------------------- MODULE CertReload ------------------------------
(* The serving certificate of the Go backend (pkg/server.go): main loads the    *)
(* two files, starts the controller and the file watcher of the library and     *)
(* listens, while the two files are rotated one after the other.  A step is     *)
(* what a thread does between two points where another one can run: the read    *)
(* of a file, an operation on a queue, the store of an atomic pointer.          *)
(*                                                                              *)
(* Main is translated from server.go; the loader, the watcher and the           *)
(* controller are k8s.io/apiserver's dynamiccertificates, as server.go starts   *)
(* and connects them.  A file is abstracted to its generation; every rotation   *)
(* makes a new key, so a certificate fits the key of its own generation only.   *)
(* A file that cannot be read takes the path of two files that do not fit.      *)
EXTENDS Naturals

CONSTANTS
  MaxRotations,  \* bound on the rotations
  MaxCrashes     \* bound on the crashes for reasons of no concern here

ASSUME BoundsAssumption == MaxRotations \in Nat /\ MaxCrashes \in Nat

VARIABLES
  files,     \* [cert, key]: the generation of each file
  main,      \* where main is in Start, "down" when there is no process
  certRead,  \* generation of the certificate main has read
  content,   \* certKeyPair of the loader
  served,    \* currentServingTLSConfig, what GetConfigForClient returns
  static,    \* the pair ListenAndServeTLS loaded
  listener,  \* the controller is a listener of the loader
  loader,    \* [at, cert, queued, retry]: worker and queue of the file loader
  watcher,   \* [at, armed, events]: the file watcher
  ctrl,      \* [at, queued]: worker and queue of the controller
  crashes,   \* bounded by MaxCrashes
  newest     \* history: newest generation that a client could get

process == <<main, certRead, content, served, static, listener, loader, watcher,
             ctrl>>
threads == <<loader, watcher, ctrl>>
vars    == <<files, process, crashes, newest>>

Files == {"cert", "key"}
Gens  == 0..MaxRotations

NoPair == <<>>
Pairs  == [cert : Gens, key : Gens]

(* main before and after it has started the goroutines. *)
Loading == {"down", "loadCert", "loadKey"}
Wired   == {"listenCert", "listenKey", "listening"}

Loaders  == [at : {"off", "idle", "cert", "key", "notify"}, cert : Gens,
             queued : BOOLEAN, retry : BOOLEAN]
Watchers == [at : {"off", "start", "arm", "watch"}, armed : SUBSET Files,
             events : SUBSET Files]
Ctrls    == [at : {"off", "idle"}, queued : BOOLEAN]

(* Something is loaded before it is taken over, and taken over before anybody   *)
(* can be served.                                                               *)
TypeOK ==
  /\ files \in Pairs
  /\ main \in Loading \union {"runOnce", "wire"} \union Wired
  /\ certRead \in Gens
  /\ IF main \in Loading THEN content = NoPair ELSE content \in Pairs
  /\ IF main \in Loading \union {"runOnce"} THEN served = NoPair ELSE served \in Pairs
  /\ static \in Pairs \union {NoPair}
  /\ listener \in BOOLEAN
  /\ loader \in Loaders
  /\ watcher \in Watchers
  /\ ctrl \in Ctrls
  /\ crashes \in 0..MaxCrashes
  /\ newest \in Gens

NoLoader  == [at |-> "off", cert |-> 0, queued |-> FALSE, retry |-> FALSE]
NoWatcher == [at |-> "off", armed |-> {}, events |-> {}]
NoCtrl    == [at |-> "off", queued |-> FALSE]

Init ==
  /\ files = [cert |-> 0, key |-> 0]
  /\ main = "down"
  /\ certRead = 0
  /\ content = NoPair
  /\ served = NoPair
  /\ static = NoPair
  /\ listener = FALSE
  /\ loader = NoLoader
  /\ watcher = NoWatcher
  /\ ctrl = NoCtrl
  /\ crashes = 0
  /\ newest = 0

(* tls.X509KeyPair: the key has to fit the certificate. *)
FitsUnchecked(c, k) == TRUE
Fits(c, k) == c = k

HandshakePair == served

--------------------------------------------------------------------------------
(* The environment: a rotation replaces the two files, one after the other or,  *)
(* when the two steps follow each other, at once.  A watched file that is       *)
(* replaced makes an event and loses its watch; one that is overwritten keeps   *)
(* it.                                                                          *)

Write(f) ==
  /\ files' = [files EXCEPT ![f] = @ + 1]
  /\ \/ f \notin watcher.armed /\ UNCHANGED watcher
     \/ /\ f \in watcher.armed
        /\ \E kept \in BOOLEAN :
             watcher' = [watcher EXCEPT !.events = @ \union {f},
                                        !.armed = IF kept THEN @ ELSE @ \ {f}]
  /\ UNCHANGED <<main, certRead, content, served, static, listener, loader, ctrl,
                 crashes, newest>>

BeginRotation(f) == /\ files.cert = files.key
                    /\ files[f] < MaxRotations
                    /\ Write(f)

FinishRotation(f) == /\ \E g \in Files : files[f] < files[g]
                     /\ Write(f)

(* The process ends, by logrus.Fatal, a panic or from outside. *)
Exit == /\ main' = "down"
        /\ certRead' = 0
        /\ content' = NoPair
        /\ served' = NoPair
        /\ static' = NoPair
        /\ listener' = FALSE
        /\ loader' = NoLoader
        /\ watcher' = NoWatcher
        /\ ctrl' = NoCtrl
        /\ UNCHANGED <<files, newest>>

Crash == /\ main # "down"
         /\ crashes < MaxCrashes
         /\ crashes' = crashes + 1
         /\ Exit

(* The pod's container is started again. *)
Restart == /\ main = "down"
           /\ main' = "loadCert"
           /\ UNCHANGED <<files, certRead, content, served, static, listener,
                          threads, crashes, newest>>

--------------------------------------------------------------------------------
(* Start, with TLS enabled. *)

(* NewDynamicServingContentFromFiles reads the two files. *)
LoadCert ==
  /\ main = "loadCert"
  /\ certRead' = files.cert
  /\ main' = "loadKey"
  /\ UNCHANGED <<files, content, served, static, listener, threads, crashes, newest>>

LoadKey ==
  /\ main = "loadKey"
  /\ \/ /\ Fits(certRead, files.key)
        /\ content' = [cert |-> certRead, key |-> files.key]
        /\ main' = "runOnce"
        /\ UNCHANGED <<files, certRead, served, static, listener, threads, newest>>
     \/ /\ ~Fits(certRead, files.key)
        /\ Exit
  /\ UNCHANGED crashes

(* Mutant: the controller is not run before the server listens. *)
RunOnceDropped ==
  /\ main = "runOnce"
  /\ main' = "wire"
  /\ UNCHANGED <<files, certRead, content, served, static, listener, threads,
                 crashes, newest>>

(* ctrl.RunOnce() takes over what was loaded. *)
RunOnce ==
  /\ main = "runOnce"
  /\ served' = content
  /\ main' = "wire"
  /\ UNCHANGED <<files, certRead, content, static, listener, threads, crashes, newest>>

(* Mutants: the former bug that tests/fixtures/chainsaw-tests/cert-rotation     *)
(* guards against, no listener or no file watcher.                              *)
WireNoListener ==
  /\ main = "wire"
  /\ ctrl' = [at |-> "idle", queued |-> TRUE]
  /\ loader' = [NoLoader EXCEPT !.at = "idle"]
  /\ watcher' = [NoWatcher EXCEPT !.at = "start"]
  /\ main' = "listenCert"
  /\ UNCHANGED <<files, certRead, content, served, static, listener, crashes, newest>>

WireNoRun ==
  /\ main = "wire"
  /\ listener' = TRUE
  /\ ctrl' = [at |-> "idle", queued |-> TRUE]
  /\ main' = "listenCert"
  /\ UNCHANGED <<files, certRead, content, served, static, loader, watcher, crashes,
                 newest>>

(* GetConfigForClient and AddListener, then the two goroutines: ctrl.Run syncs  *)
(* once and primes its queue, certKeyPair.Run starts the worker and the watcher. *)
Wire ==
  /\ main = "wire"
  /\ listener' = TRUE
  /\ ctrl' = [at |-> "idle", queued |-> TRUE]
  /\ loader' = [NoLoader EXCEPT !.at = "idle"]
  /\ watcher' = [NoWatcher EXCEPT !.at = "start"]
  /\ main' = "listenCert"
  /\ UNCHANGED <<files, certRead, content, served, static, crashes, newest>>

(* ListenAndServeTLS reads the files anew, and the process panics if they do    *)
(* not fit.                                                                     *)
ListenCert ==
  /\ main = "listenCert"
  /\ certRead' = files.cert
  /\ main' = "listenKey"
  /\ UNCHANGED <<files, content, served, static, listener, threads, crashes, newest>>

ListenKey ==
  /\ main = "listenKey"
  /\ \/ /\ Fits(certRead, files.key)
        /\ static' = [cert |-> certRead, key |-> files.key]
        /\ main' = "listening"
        /\ newest' = HandshakePair.cert
        /\ UNCHANGED <<files, certRead, content, served, listener, threads>>
     \/ /\ ~Fits(certRead, files.key)
        /\ Exit
  /\ UNCHANGED crashes

--------------------------------------------------------------------------------
(* The loader: one worker, a queue that merges equal items, an item that is     *)
(* added while it is worked on is handed out afterwards.                        *)

Others == <<files, main, certRead, static, listener, crashes>>

LoaderTake ==
  /\ loader.at = "idle" /\ loader.queued
  /\ loader' = [loader EXCEPT !.at = "cert", !.queued = FALSE]
  /\ UNCHANGED <<Others, content, served, watcher, ctrl, newest>>

LoaderReadCert ==
  /\ loader.at = "cert"
  /\ loader' = [loader EXCEPT !.at = "key", !.cert = files.cert]
  /\ UNCHANGED <<Others, content, served, watcher, ctrl, newest>>

(* loadCertKeyPair after its second read: an error makes a delayed retry, the   *)
(* content that is there already nothing, new content is stored.                *)
LoaderReadKey ==
  /\ loader.at = "key"
  /\ LET read == [cert |-> loader.cert, key |-> files.key]
     IN \/ /\ ~Fits(read.cert, read.key)
           /\ loader' = [loader EXCEPT !.at = "idle", !.retry = TRUE]
           /\ UNCHANGED content
        \/ /\ Fits(read.cert, read.key) /\ read = content
           /\ loader' = [loader EXCEPT !.at = "idle"]
           /\ UNCHANGED content
        \/ /\ Fits(read.cert, read.key) /\ read # content
           /\ loader' = [loader EXCEPT !.at = "notify"]
           /\ content' = read
  /\ UNCHANGED <<Others, served, watcher, ctrl, newest>>

LoaderNotify ==
  /\ loader.at = "notify"
  /\ loader' = [loader EXCEPT !.at = "idle"]
  /\ ctrl' = IF listener THEN [ctrl EXCEPT !.queued = TRUE] ELSE ctrl
  /\ UNCHANGED <<Others, content, served, watcher, newest>>

(* The delay of AddRateLimited is over. *)
LoaderRetry ==
  /\ loader.retry
  /\ loader' = [loader EXCEPT !.retry = FALSE, !.queued = TRUE]
  /\ UNCHANGED <<Others, content, served, watcher, ctrl, newest>>

(* watchCertKeyFile asks for a load before it adds the watches and after it.    *)
(* It is called again a minute after it returned.                               *)
WatcherStart ==
  /\ watcher.at = "start"
  /\ watcher' = [watcher EXCEPT !.at = "arm", !.armed = {}, !.events = {}]
  /\ loader' = [loader EXCEPT !.queued = TRUE]
  /\ UNCHANGED <<Others, content, served, ctrl, newest>>

WatcherArm ==
  /\ watcher.at = "arm"
  /\ watcher' = [watcher EXCEPT !.at = "watch", !.armed = Files]
  /\ loader' = [loader EXCEPT !.queued = TRUE]
  /\ UNCHANGED <<Others, content, served, ctrl, newest>>

(* handleWatchEvent watches the file again if its watch is gone, then asks for  *)
(* a load.                                                                      *)
WatcherEvent(f) ==
  /\ watcher.at = "watch" /\ f \in watcher.events
  /\ watcher' = [watcher EXCEPT !.events = @ \ {f}, !.armed = @ \union {f}]
  /\ loader' = [loader EXCEPT !.queued = TRUE]
  /\ UNCHANGED <<Others, content, served, ctrl, newest>>

(* A watch cannot be added, or fsnotify reports an error. *)
WatcherFails ==
  /\ watcher.at \in {"arm", "watch"}
  /\ watcher' = [watcher EXCEPT !.at = "start", !.armed = {}, !.events = {}]
  /\ \/ UNCHANGED loader
     \/ watcher.events # {} /\ loader' = [loader EXCEPT !.queued = TRUE]
  /\ UNCHANGED <<Others, content, served, ctrl, newest>>

(* The controller: syncCerts takes over the content. *)
SyncCerts ==
  /\ ctrl.at = "idle" /\ ctrl.queued
  /\ ctrl' = [ctrl EXCEPT !.queued = FALSE]
  /\ served' = content
  /\ newest' = IF main = "listening" THEN (HandshakePair').cert ELSE newest
  /\ UNCHANGED <<Others, content, loader, watcher>>

(* The check of every minute. *)
MinuteTick ==
  /\ ctrl.at = "idle"
  /\ ctrl' = [ctrl EXCEPT !.queued = TRUE]
  /\ UNCHANGED <<Others, content, served, loader, watcher, newest>>

--------------------------------------------------------------------------------

MainStep == \/ Restart \/ LoadCert \/ LoadKey \/ RunOnce \/ Wire
            \/ ListenCert \/ ListenKey

LoaderStep == LoaderTake \/ LoaderReadCert \/ LoaderReadKey \/ LoaderNotify

WatcherStep == WatcherStart \/ WatcherArm \/ \E f \in Files : WatcherEvent(f)

Environment == Crash \/ WatcherFails
               \/ \E f \in Files : BeginRotation(f) \/ FinishRotation(f)

Next == \/ MainStep \/ LoaderStep \/ LoaderRetry \/ WatcherStep
        \/ SyncCerts \/ MinuteTick \/ Environment

Spec == Init /\ [][Next]_vars

(* A thread that can run is scheduled, a delay ends, the container is started   *)
(* again, and a rotation that was begun is finished.                            *)
FairSpec == /\ Spec
            /\ WF_vars(MainStep) /\ WF_vars(LoaderStep) /\ WF_vars(LoaderRetry)
            /\ WF_vars(WatcherStep) /\ WF_vars(SyncCerts)
            /\ WF_vars(\E f \in Files : FinishRotation(f))

--------------------------------------------------------------------------------
(* Correctness. *)

(* What was loaded and is not served yet is about to be: the controller has     *)
(* been notified or will be, and needs no minutely check (server.go:131).       *)
LoadedIsNotified ==
  content # served => main = "runOnce" \/ loader.at = "notify" \/ ctrl.queued

(* The server keeps the promise of ServingCertificate: a handshake never meets  *)
(* a certificate and a key that do not belong together (server.go:109 reads     *)
(* two files), there is a pair from the first connection on (server.go:124),    *)
(* and no restart, reload or retry brings back an older one.                    *)
Published == IF files.cert < files.key THEN files.cert ELSE files.key

Certificate == INSTANCE ServingCertificate WITH
  published <- Published,
  up        <- main = "listening",
  pair      <- IF main = "listening" THEN HandshakePair ELSE NoPair

ImplementsServingCertificate == Certificate!SSpec

(* A rotation is served without a restart being asked for, in the end or when   *)
(* no further one follows (tests/fixtures/chainsaw-tests/cert-rotation).        *)
RotationServed ==
  \A g \in Gens : files = [cert |-> g, key |-> g]
                    ~> \/ main = "listening" /\ HandshakePair = files
                       \/ files.cert > g \/ files.key > g
================================================================================

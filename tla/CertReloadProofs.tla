---------------------------- MODULE CertReloadProofs ---------------------------
(* Theorems about CertReload, for any number of rotations and crashes.          *)
EXTENDS CertReload, TLAPS

(* A pair that is loaded or served belongs together, has been written           *)
(* completely, and no client got a newer one.                                   *)
Sound(p) == /\ p.cert = p.key
            /\ newest <= p.cert
            /\ p.cert <= files.cert
            /\ p.cert <= files.key

(* What is read next is not older than what is there: the generations are       *)
(* ordered along newest, served, content, the certificate read, the files.      *)
Ordered ==
  /\ newest <= files.cert /\ newest <= files.key
  /\ main = "loadKey" => newest <= certRead /\ certRead <= files.cert
  /\ main \notin Loading => Sound(content)
  /\ main \notin Loading \union {"runOnce"} =>
       Sound(served) /\ served.cert <= content.cert
  /\ loader.at = "key" =>
       content.cert <= loader.cert /\ loader.cert <= files.cert

(* The threads run exactly from Wire on. *)
ThreadsRun == /\ loader.at # "off" => main \in Wired
              /\ ctrl.at # "off" => main \in Wired
              /\ watcher.at # "off" => main \in Wired
              /\ main \in Wired => listener /\ ctrl.at = "idle"
              /\ watcher.at = "off" => watcher.armed = {}

Inv == TypeOK /\ Ordered /\ ThreadsRun /\ LoadedIsNotified

--------------------------------------------------------------------------------
(* Every action preserves the invariant: what it leaves alone, what it moves    *)
(* along the order of generations, what it resets.                              *)

USE BoundsAssumption DEF Gens, Pairs, Files, Loaders, Watchers, Ctrls

LEMMA InitInv == Init => Inv
<1> SUFFICES ASSUME Init PROVE Inv
  OBVIOUS
<1>1. loader \in Loaders /\ watcher \in Watchers /\ ctrl \in Ctrls
  BY DEF Init, NoLoader, NoWatcher, NoCtrl
<1>2. TypeOK
  <2>1. files \in Pairs /\ certRead \in Gens /\ newest \in Gens
    BY DEF Init
  <2>2. main \in Loading /\ content = NoPair /\ served = NoPair /\ static = NoPair
    BY DEF Init, Loading
  <2>3. listener \in BOOLEAN
    BY DEF Init
  <2>4. crashes \in 0..MaxCrashes
    BY DEF Init
  <2> HIDE DEF Pairs, Gens, Loaders, Watchers, Ctrls
  <2> QED BY <1>1, <2>1, <2>2, <2>3, <2>4 DEF TypeOK
<1>3. Ordered /\ ThreadsRun /\ LoadedIsNotified
  BY DEF Init, Ordered, ThreadsRun, LoadedIsNotified, NoLoader, NoWatcher, NoCtrl,
         Loading, Wired
<1> QED BY <1>2, <1>3 DEF Inv

(* The process ends: no thread is left that could have read anything. *)
LEMMA ExitKeeps ==
  ASSUME Inv, Exit, crashes' \in 0..MaxCrashes
  PROVE  Inv'
<1>1. TypeOK'
  <2>1. loader' \in Loaders /\ watcher' \in Watchers /\ ctrl' \in Ctrls
    BY DEF Exit, NoLoader, NoWatcher, NoCtrl
  <2>2. files' \in Pairs /\ certRead' \in Gens /\ newest' \in Gens
    BY DEF Inv, TypeOK, Exit
  <2>3. /\ main' \in Loading /\ listener' \in BOOLEAN
        /\ content' = NoPair /\ served' = NoPair /\ static' = NoPair
    BY DEF Exit, Loading
  <2> HIDE DEF Pairs, Gens, Loaders, Watchers, Ctrls
  <2> QED BY <2>1, <2>2, <2>3 DEF TypeOK
<1>2. Ordered'
  BY DEF Inv, TypeOK, Ordered, ThreadsRun, Sound, Loading, Wired, Exit, NoPair,
         NoLoader, NoWatcher, NoCtrl
<1>3. ThreadsRun'
  BY DEF Inv, TypeOK, ThreadsRun, Loading, Wired, Exit, NoPair, NoLoader,
         NoWatcher, NoCtrl
<1>4. LoadedIsNotified'
  BY DEF Inv, TypeOK, ThreadsRun, LoadedIsNotified, Loading, Wired, Exit,
         NoPair, NoLoader, NoWatcher, NoCtrl
<1> QED BY <1>1, <1>2, <1>3, <1>4 DEF Inv

(* A file gets newer. *)
LEMMA WriteKeeps ==
  ASSUME Inv, NEW f \in Files, Write(f), files[f] < MaxRotations
  PROVE  Inv'
<1> files.cert \in Nat /\ files.key \in Nat
  BY DEF Inv, TypeOK
<1> DEFINE Grown(c, k) == files' = [cert |-> c, key |-> k]
<1>0. Grown(files.cert + 1, files.key) \/ Grown(files.cert, files.key + 1)
  <2>1. f = "cert" => Grown(files.cert + 1, files.key)
    BY DEF Inv, TypeOK, Write
  <2>2. f = "key" => Grown(files.cert, files.key + 1)
    BY DEF Inv, TypeOK, Write
  <2> QED BY <2>1, <2>2
<1>1. TypeOK'
  <2>1. files' \in Pairs
    <3>1. f = "cert" => files.cert + 1 \in Gens
      BY DEF Inv, TypeOK
    <3>2. f = "key" => files.key + 1 \in Gens
      BY DEF Inv, TypeOK
    <3>3. f = "cert" => files' = [cert |-> files.cert + 1, key |-> files.key]
      BY DEF Inv, TypeOK, Write
    <3>4. f = "key" => files' = [cert |-> files.cert, key |-> files.key + 1]
      BY DEF Inv, TypeOK, Write
    <3> QED BY <3>1, <3>2, <3>3, <3>4 DEF Inv, TypeOK
  <2>2. watcher' \in Watchers
    <3>1. \E a \in SUBSET Files, e \in SUBSET Files :
             watcher' = [watcher EXCEPT !.events = e, !.armed = a]
      <4>1. CASE UNCHANGED watcher
        <5>1. watcher' = [watcher EXCEPT !.events = watcher.events, !.armed = watcher.armed]
          BY <4>1 DEF Inv, TypeOK
        <5> QED BY <5>1 DEF Inv, TypeOK
      <4>2. CASE \/ watcher' = [watcher EXCEPT !.events = @ \union {f}, !.armed = @]
                 \/ watcher' = [watcher EXCEPT !.events = @ \union {f},
                                               !.armed = @ \ {f}]
        <5>1. /\ watcher.events \union {f} \in SUBSET Files
              /\ watcher.armed \in SUBSET Files
              /\ watcher.armed \ {f} \in SUBSET Files
          BY DEF Inv, TypeOK
        <5> HIDE DEF Files
        <5> QED BY <4>2, <5>1
      <4> QED BY <4>1, <4>2 DEF Write
    <3>2. watcher \in Watchers
      BY DEF Inv, TypeOK
    <3> HIDE DEF Files
    <3> QED BY <3>1, <3>2
  <2>3. UNCHANGED <<main, certRead, content, served, static, listener, loader, ctrl,
                    crashes, newest>>
    BY DEF Write
  <2>4. TypeOK
    BY DEF Inv
  <2> HIDE DEF Pairs, Gens, Loaders, Watchers, Ctrls
  <2> QED BY <2>1, <2>2, <2>3, <2>4 DEF TypeOK
<1>2. Ordered'
  <2>1. files.cert <= files'.cert /\ files.key <= files'.key
    BY <1>0
  <2>3. newest \in Gens /\ certRead \in Gens
    BY DEF Inv, TypeOK
  <2>4. main \notin Loading => content \in Pairs
    BY DEF Inv, TypeOK
  <2>5. main \notin Loading \union {"runOnce"} => served \in Pairs
    BY DEF Inv, TypeOK
  <2>6. loader \in Loaders /\ files \in Pairs /\ files' \in Pairs
    BY <1>1 DEF Inv, TypeOK
  <2>7. newest <= files'.cert /\ newest <= files'.key
    BY <2>1, <2>3, <2>6 DEF Inv, Ordered
  <2>a. newest' = newest /\ content' = content /\ served' = served
    BY DEF Write
  <2>8. main \notin Loading => Sound(content)'
    BY <2>1, <2>3, <2>4, <2>6, <2>a DEF Inv, Ordered, Sound
  <2>9. main \notin Loading \union {"runOnce"} =>
          Sound(served)' /\ served.cert <= content.cert
    BY <2>1, <2>3, <2>5, <2>6, <2>a DEF Inv, Ordered, Sound
  <2>10. /\ main = "loadKey" => newest <= certRead /\ certRead <= files'.cert
         /\ loader.at = "key" =>
              content.cert <= loader.cert /\ loader.cert <= files'.cert
    BY <2>1, <2>3, <2>6 DEF Inv, Ordered
  <2> QED BY <2>7, <2>8, <2>9, <2>10 DEF Ordered, Write
<1>3. ThreadsRun'
  BY DEF Inv, TypeOK, ThreadsRun, Loading, Wired, Write
<1>4. LoadedIsNotified'
  BY DEF Inv, TypeOK, ThreadsRun, LoadedIsNotified, Loading, Wired, Write
<1> QED BY <1>1, <1>2, <1>3, <1>4 DEF Inv

(* The container is started again. *)
LEMMA RestartKeeps ==
  ASSUME Inv, Restart
  PROVE  Inv'
<1>1. TypeOK'
  BY DEF Inv, TypeOK, Loading, Wired, Restart, threads
<1>2. Ordered'
  BY DEF Inv, TypeOK, Ordered, ThreadsRun, Sound, Loading, Wired, Restart, threads
<1>3. ThreadsRun'
  BY DEF Inv, TypeOK, ThreadsRun, Loading, Wired, Restart, threads
<1>4. LoadedIsNotified'
  BY DEF Inv, TypeOK, ThreadsRun, LoadedIsNotified, Loading, Wired, Restart,
         threads
<1> QED BY <1>1, <1>2, <1>3, <1>4 DEF Inv

(* The first read of the start. *)
LEMMA LoadCertKeeps ==
  ASSUME Inv, LoadCert
  PROVE  Inv'
<1>1. TypeOK'
  BY DEF Inv, TypeOK, Loading, Wired, LoadCert, threads
<1>2. Ordered'
  BY DEF Inv, TypeOK, Ordered, ThreadsRun, Sound, Loading, Wired, LoadCert,
         threads
<1>3. ThreadsRun'
  BY DEF Inv, TypeOK, ThreadsRun, Loading, Wired, LoadCert, threads
<1>4. LoadedIsNotified'
  BY DEF Inv, TypeOK, ThreadsRun, LoadedIsNotified, Loading, Wired, LoadCert,
         threads
<1> QED BY <1>1, <1>2, <1>3, <1>4 DEF Inv

(* The second one: the two fit, or the process ends. *)
LEMMA LoadKeyKeeps ==
  ASSUME Inv, LoadKey
  PROVE  Inv'
<1>1. CASE Exit
  BY <1>1, ExitKeeps DEF LoadKey, Inv, TypeOK
<1>2. CASE /\ Fits(certRead, files.key)
           /\ content' = [cert |-> certRead, key |-> files.key]
           /\ main' = "runOnce"
           /\ UNCHANGED <<files, certRead, served, static, listener, threads, newest>>
  <2>1. TypeOK'
    BY <1>2 DEF Inv, TypeOK, Loading, Wired, LoadKey, Fits, threads
  <2>2. Ordered'
    BY <1>2 DEF Inv, TypeOK, Ordered, ThreadsRun, Sound, Loading, Wired,
                LoadKey, Fits, threads
  <2>3. ThreadsRun'
    BY <1>2 DEF Inv, TypeOK, ThreadsRun, Loading, Wired, LoadKey, Fits, threads
  <2>4. LoadedIsNotified'
    BY <1>2 DEF Inv, TypeOK, ThreadsRun, LoadedIsNotified, Loading, Wired,
                LoadKey, Fits, threads
  <2> QED BY <2>1, <2>2, <2>3, <2>4 DEF Inv
<1> QED BY <1>1, <1>2 DEF LoadKey

(* The controller takes over what was loaded. *)
LEMMA RunOnceKeeps ==
  ASSUME Inv, RunOnce
  PROVE  Inv'
<1>1. TypeOK'
  BY DEF Inv, TypeOK, Loading, Wired, RunOnce, threads
<1>2. Ordered'
  BY DEF Inv, TypeOK, Ordered, ThreadsRun, Sound, Loading, Wired, RunOnce, threads
<1>3. ThreadsRun'
  BY DEF Inv, TypeOK, ThreadsRun, Loading, Wired, RunOnce, threads
<1>4. LoadedIsNotified'
  BY DEF Inv, TypeOK, ThreadsRun, LoadedIsNotified, Loading, Wired, RunOnce,
         threads
<1> QED BY <1>1, <1>2, <1>3, <1>4 DEF Inv

(* The threads start. *)
LEMMA WireKeeps ==
  ASSUME Inv, Wire
  PROVE  Inv'
<1>1. TypeOK'
  <2>1. loader' \in Loaders /\ watcher' \in Watchers /\ ctrl' \in Ctrls
    <3>1. loader' = [at |-> "idle", cert |-> 0, queued |-> FALSE, retry |-> FALSE]
      BY DEF Wire, NoLoader
    <3>2. watcher' = [at |-> "start", armed |-> {}, events |-> {}]
      BY DEF Wire, NoWatcher
    <3>3. ctrl' = [at |-> "idle", queued |-> TRUE]
      BY DEF Wire
    <3> QED BY <3>1, <3>2, <3>3
  <2> HIDE DEF Loaders, Watchers, Ctrls
  <2> QED BY <2>1 DEF Inv, TypeOK, Loading, Wired, Wire
<1>2. Ordered'
  BY DEF Inv, TypeOK, Ordered, ThreadsRun, Sound, Loading, Wired, Wire,
         NoLoader, NoWatcher
<1>3. ThreadsRun'
  BY DEF Inv, TypeOK, ThreadsRun, Loading, Wired, Wire, NoLoader, NoWatcher
<1>4. LoadedIsNotified'
  BY DEF Inv, TypeOK, ThreadsRun, LoadedIsNotified, Loading, Wired, Wire,
         NoLoader, NoWatcher
<1> QED BY <1>1, <1>2, <1>3, <1>4 DEF Inv

(* The first read of ListenAndServeTLS. *)
LEMMA ListenCertKeeps ==
  ASSUME Inv, ListenCert
  PROVE  Inv'
<1>1. TypeOK'
  BY DEF Inv, TypeOK, Loading, Wired, ListenCert, threads
<1>2. Ordered'
  BY DEF Inv, TypeOK, Ordered, ThreadsRun, Sound, Loading, Wired, ListenCert,
         threads
<1>3. ThreadsRun'
  BY DEF Inv, TypeOK, ThreadsRun, Loading, Wired, ListenCert, threads
<1>4. LoadedIsNotified'
  BY DEF Inv, TypeOK, ThreadsRun, LoadedIsNotified, Loading, Wired, ListenCert,
         threads
<1> QED BY <1>1, <1>2, <1>3, <1>4 DEF Inv

(* The second one, and the server listens or the process ends. *)
LEMMA ListenKeyKeeps ==
  ASSUME Inv, ListenKey
  PROVE  Inv'
<1>1. CASE Exit
  BY <1>1, ExitKeeps DEF ListenKey, Inv, TypeOK
<1>2. CASE /\ static' = [cert |-> certRead, key |-> files.key]
           /\ main' = "listening"
           /\ newest' = HandshakePair.cert
           /\ UNCHANGED <<files, certRead, content, served, listener, threads>>
  <2>1. TypeOK'
    BY <1>2 DEF Inv, TypeOK, Loading, Wired, ListenKey, HandshakePair, threads
  <2>2. Ordered'
    BY <1>2 DEF Inv, TypeOK, Ordered, ThreadsRun, Sound, Loading, Wired,
                ListenKey, HandshakePair, threads
  <2>3. ThreadsRun'
    BY <1>2 DEF Inv, TypeOK, ThreadsRun, Loading, Wired, ListenKey,
                HandshakePair, threads
  <2>4. LoadedIsNotified'
    BY <1>2 DEF Inv, TypeOK, ThreadsRun, LoadedIsNotified, Loading, Wired,
                ListenKey, HandshakePair, threads
  <2> QED BY <2>1, <2>2, <2>3, <2>4 DEF Inv
<1> QED BY <1>1, <1>2 DEF ListenKey

(* The loader begins. *)
LEMMA LoaderTakeKeeps ==
  ASSUME Inv, LoaderTake
  PROVE  Inv'
<1>1. TypeOK'
  <2>1. loader' \in Loaders
    BY DEF Inv, TypeOK, LoaderTake
  <2> HIDE DEF Pairs, Gens, Loaders, Watchers, Ctrls
  <2> QED BY <2>1 DEF Inv, TypeOK, LoaderTake, Others
<1>2. Ordered'
  BY DEF Inv, TypeOK, Ordered, ThreadsRun, Sound, Loading, Wired, LoaderTake,
         Others
<1>3. ThreadsRun'
  BY DEF Inv, TypeOK, ThreadsRun, Loading, Wired, LoaderTake, Others
<1>4. LoadedIsNotified'
  BY DEF Inv, TypeOK, ThreadsRun, LoadedIsNotified, Loading, Wired, LoaderTake,
         Others
<1> QED BY <1>1, <1>2, <1>3, <1>4 DEF Inv

(* Its first read. *)
LEMMA LoaderReadCertKeeps ==
  ASSUME Inv, LoaderReadCert
  PROVE  Inv'
<1>1. TypeOK'
  <2>1. loader' \in Loaders
    BY DEF Inv, TypeOK, LoaderReadCert
  <2> HIDE DEF Pairs, Gens, Loaders, Watchers, Ctrls
  <2> QED BY <2>1 DEF Inv, TypeOK, LoaderReadCert, Others
<1>2. Ordered'
  BY DEF Inv, TypeOK, Ordered, ThreadsRun, Sound, Loading, Wired,
         LoaderReadCert, Others
<1>3. ThreadsRun'
  BY DEF Inv, TypeOK, ThreadsRun, Loading, Wired, LoaderReadCert, Others
<1>4. LoadedIsNotified'
  BY DEF Inv, TypeOK, ThreadsRun, LoadedIsNotified, Loading, Wired,
         LoaderReadCert, Others
<1> QED BY <1>1, <1>2, <1>3, <1>4 DEF Inv

(* Its second one, whatever the loader makes of it. *)
LEMMA LoaderReadKeyKeeps ==
  ASSUME Inv, LoaderReadKey
  PROVE  Inv'
<1>1. TypeOK'
  <2>1. loader' \in Loaders
    <3>1. loader \in Loaders
      BY DEF Inv, TypeOK
    <3>2. \/ loader' = [loader EXCEPT !.at = "idle", !.retry = TRUE]
          \/ loader' = [loader EXCEPT !.at = "idle"]
          \/ loader' = [loader EXCEPT !.at = "notify"]
      BY DEF LoaderReadKey
    <3> QED BY <3>1, <3>2
  <2>2. content' \in Pairs
    BY DEF Inv, TypeOK, ThreadsRun, LoaderReadKey, Loading, Wired
  <2> QED BY <2>1, <2>2 DEF Inv, TypeOK, ThreadsRun, Loading, Wired, LoaderReadKey, Others
<1>2. Ordered'
  <2>1. loader'.at # "key"
    BY DEF Inv, TypeOK, LoaderReadKey
  <2>2. main \in Wired
    BY DEF Inv, ThreadsRun, LoaderReadKey
  <2>3. Sound(content)' /\ content.cert <= content'.cert
    <3>1. CASE content' = content
      BY <2>2, <3>1 DEF Inv, Ordered, Sound, Loading, Wired, LoaderReadKey,
                        Others, TypeOK
    <3>2. CASE /\ content' = [cert |-> loader.cert, key |-> files.key]
               /\ loader.cert = files.key
      BY <2>2, <3>2 DEF Inv, Ordered, Sound, Loading, Wired, LoaderReadKey,
                        Others, TypeOK
    <3> QED BY <3>1, <3>2 DEF LoaderReadKey, Fits
  <2> QED BY <2>1, <2>2, <2>3, <1>1
          DEF Inv, Ordered, Sound, Loading, Wired, LoaderReadKey, Others, TypeOK
<1>3. ThreadsRun'
  BY DEF Inv, TypeOK, ThreadsRun, Loading, Wired, LoaderReadKey, Fits, Others
<1>4. LoadedIsNotified'
  BY DEF Inv, TypeOK, ThreadsRun, LoadedIsNotified, Loading, Wired,
         LoaderReadKey, Fits, Others
<1> QED BY <1>1, <1>2, <1>3, <1>4 DEF Inv

(* The listener hears of new content. *)
LEMMA LoaderNotifyKeeps ==
  ASSUME Inv, LoaderNotify
  PROVE  Inv'
<1>1. TypeOK'
  <2>1. loader' \in Loaders
    BY DEF Inv, TypeOK, LoaderNotify
  <2>2. ctrl' \in Ctrls
    BY DEF Inv, TypeOK, LoaderNotify
  <2> HIDE DEF Pairs, Gens, Loaders, Watchers, Ctrls
  <2> QED BY <2>1, <2>2 DEF Inv, TypeOK, LoaderNotify, Others
<1>2. Ordered'
  BY DEF Inv, TypeOK, Ordered, ThreadsRun, Sound, Loading, Wired, LoaderNotify,
         Others
<1>3. ThreadsRun'
  BY DEF Inv, TypeOK, ThreadsRun, Loading, Wired, LoaderNotify, Others
<1>4. LoadedIsNotified'
  BY DEF Inv, TypeOK, ThreadsRun, LoadedIsNotified, Loading, Wired,
         LoaderNotify, Others
<1> QED BY <1>1, <1>2, <1>3, <1>4 DEF Inv

(* A delay ends. *)
LEMMA LoaderRetryKeeps ==
  ASSUME Inv, LoaderRetry
  PROVE  Inv'
<1>1. TypeOK'
  <2>1. loader' \in Loaders
    BY DEF Inv, TypeOK, LoaderRetry
  <2> HIDE DEF Pairs, Gens, Loaders, Watchers, Ctrls
  <2> QED BY <2>1 DEF Inv, TypeOK, LoaderRetry, Others
<1>2. Ordered'
  BY DEF Inv, TypeOK, Ordered, ThreadsRun, Sound, Loading, Wired, LoaderRetry,
         Others
<1>3. ThreadsRun'
  BY DEF Inv, TypeOK, ThreadsRun, Loading, Wired, LoaderRetry, Others
<1>4. LoadedIsNotified'
  BY DEF Inv, TypeOK, ThreadsRun, LoadedIsNotified, Loading, Wired, LoaderRetry,
         Others
<1> QED BY <1>1, <1>2, <1>3, <1>4 DEF Inv

(* The watcher touches its own state and the loader's queue. *)
LEMMA WatcherKeeps ==
  ASSUME Inv, WatcherStep \/ WatcherFails
  PROVE  Inv'
<1>1. TypeOK'
  <2>1. loader' \in Loaders
    BY DEF Inv, TypeOK, WatcherStep, WatcherStart, WatcherArm, WatcherEvent,
           WatcherFails
  <2>2. watcher' \in Watchers
    <3>1. CASE WatcherStart \/ WatcherArm \/ WatcherFails
      <4>1. watcher \in Watchers
        BY DEF Inv, TypeOK
      <4>2. CASE watcher' = [watcher EXCEPT !.at = "arm", !.armed = {}, !.events = {}]
        BY <4>1, <4>2
      <4>3. CASE watcher' = [watcher EXCEPT !.at = "start", !.armed = {}, !.events = {}]
        BY <4>1, <4>3
      <4>4. CASE watcher' = [watcher EXCEPT !.at = "watch", !.armed = Files]
        <5> HIDE DEF Files
        <5> QED BY <4>1, <4>4
      <4> QED BY <3>1, <4>2, <4>3, <4>4 DEF WatcherStart, WatcherArm, WatcherFails
    <3>2. CASE \E f \in Files : WatcherEvent(f)
      <4>1. PICK f \in Files : WatcherEvent(f)
        BY <3>2
      <4>2. watcher \in Watchers
        BY DEF Inv, TypeOK
      <4> HIDE DEF Files
      <4> QED BY <4>1, <4>2 DEF WatcherEvent
    <3> QED BY <3>1, <3>2 DEF WatcherStep
  <2> QED BY <2>1, <2>2 DEF Inv, TypeOK, Loading, Wired, WatcherStep, WatcherStart,
                            WatcherArm, WatcherEvent, WatcherFails, Others
<1>2. Ordered'
  BY DEF Inv, TypeOK, Ordered, ThreadsRun, Sound, Loading, Wired, WatcherStep,
         WatcherStart, WatcherArm, WatcherEvent, WatcherFails, Others
<1>3. ThreadsRun'
  BY DEF Inv, TypeOK, ThreadsRun, Loading, Wired, WatcherStep, WatcherStart,
         WatcherArm, WatcherEvent, WatcherFails, Others
<1>4. LoadedIsNotified'
  BY DEF Inv, TypeOK, ThreadsRun, LoadedIsNotified, Loading, Wired, WatcherStep,
         WatcherStart, WatcherArm, WatcherEvent, WatcherFails, Others
<1> QED BY <1>1, <1>2, <1>3, <1>4 DEF Inv

(* What is served catches up with what is loaded. *)
LEMMA SyncCertsKeeps ==
  ASSUME Inv, SyncCerts
  PROVE  Inv'
<1>1. TypeOK'
  <2>1. main \in Wired /\ content \in Pairs
    BY DEF Inv, TypeOK, ThreadsRun, SyncCerts, Loading, Wired
  <2>2. newest' \in Gens /\ ctrl' \in Ctrls
    BY <2>1 DEF Inv, TypeOK, SyncCerts, HandshakePair
  <2> QED BY <2>1, <2>2 DEF Inv, TypeOK, Loading, Wired, SyncCerts, Others
<1>2. Ordered'
  BY DEF Inv, TypeOK, Ordered, ThreadsRun, Sound, Loading, Wired, SyncCerts,
         HandshakePair, Others
<1>3. ThreadsRun'
  BY DEF Inv, TypeOK, ThreadsRun, Loading, Wired, SyncCerts, HandshakePair, Others
<1>4. LoadedIsNotified'
  BY DEF Inv, TypeOK, ThreadsRun, LoadedIsNotified, Loading, Wired, SyncCerts,
         HandshakePair, Others
<1> QED BY <1>1, <1>2, <1>3, <1>4 DEF Inv

(* The minutely check. *)
LEMMA MinuteTickKeeps ==
  ASSUME Inv, MinuteTick
  PROVE  Inv'
<1>1. TypeOK'
  <2>1. ctrl' \in Ctrls
    BY DEF Inv, TypeOK, MinuteTick
  <2> HIDE DEF Pairs, Gens, Loaders, Watchers, Ctrls
  <2> QED BY <2>1 DEF Inv, TypeOK, MinuteTick, Others
<1>2. Ordered'
  BY DEF Inv, TypeOK, Ordered, ThreadsRun, Sound, Loading, Wired, MinuteTick,
         Others
<1>3. ThreadsRun'
  BY DEF Inv, TypeOK, ThreadsRun, Loading, Wired, MinuteTick, Others
<1>4. LoadedIsNotified'
  BY DEF Inv, TypeOK, ThreadsRun, LoadedIsNotified, Loading, Wired, MinuteTick,
         Others
<1> QED BY <1>1, <1>2, <1>3, <1>4 DEF Inv

LEMMA NextInv == Inv /\ [Next]_vars => Inv'
<1> SUFFICES ASSUME Inv, [Next]_vars PROVE Inv'
  OBVIOUS
<1>1. CASE MainStep
  BY <1>1, RestartKeeps, LoadCertKeeps, LoadKeyKeeps, RunOnceKeeps, WireKeeps,
     ListenCertKeeps, ListenKeyKeeps DEF MainStep
<1>2. CASE LoaderStep \/ LoaderRetry
  BY <1>2, LoaderTakeKeeps, LoaderReadCertKeeps, LoaderReadKeyKeeps,
     LoaderNotifyKeeps, LoaderRetryKeeps DEF LoaderStep
<1>3. CASE WatcherStep \/ WatcherFails
  BY <1>3, WatcherKeeps
<1>4. CASE SyncCerts \/ MinuteTick
  BY <1>4, SyncCertsKeeps, MinuteTickKeeps
<1>5. CASE Crash
  <2>1. crashes' \in 0..MaxCrashes
    BY <1>5 DEF Crash, Inv, TypeOK
  <2> QED BY <1>5, <2>1, ExitKeeps DEF Crash
<1>6. CASE \E f \in Files : BeginRotation(f) \/ FinishRotation(f)
  <2>1. PICK f \in Files : BeginRotation(f) \/ FinishRotation(f)
    BY <1>6
  <2>2. Write(f) /\ files[f] < MaxRotations
    BY <2>1 DEF BeginRotation, FinishRotation, Inv, TypeOK
  <2> QED BY <2>2, WriteKeeps
<1>7. CASE UNCHANGED vars
  BY <1>7 DEF vars, process, Inv, TypeOK, Ordered, ThreadsRun, LoadedIsNotified,
              Sound
<1> QED BY <1>1, <1>2, <1>3, <1>4, <1>5, <1>6, <1>7 DEF Next, Environment

(* The invariant holds in every reachable state. *)
THEOREM ReloadInvariance == Spec => []Inv
BY InitInv, NextInv, PTL DEF Spec

(* The values of the variables never leave their types. *)
THEOREM ReloadTypeCorrect == Spec => []TypeOK
BY ReloadInvariance, PTL DEF Inv

(* A certificate that was loaded is served without waiting for a minute. *)
THEOREM LoadedIsNotifiedAlways == Spec => []LoadedIsNotified
BY ReloadInvariance, PTL DEF Inv

--------------------------------------------------------------------------------
(* The refinement: an action changes what a client gets, ends the process,      *)
(* finishes a rotation, or changes nothing that ServingCertificate speaks of.   *)

LEMMA PairIsOneGeneration ==
  ASSUME NEW p \in Pairs, p.cert = p.key
  PROVE  p = Certificate!Pair(p.cert)
BY DEF Certificate!Pair

LEMMA PublishedFacts ==
  ASSUME Inv
  PROVE  /\ Published \in Nat /\ newest <= Published
         /\ \A p \in Pairs : Sound(p) => p.cert <= Published
BY DEF Inv, TypeOK, Ordered, Published, Sound

(* A file that gets newer completes a generation or does not. *)
LEMMA WriteRefines ==
  ASSUME Inv, NEW f \in Files, BeginRotation(f) \/ FinishRotation(f)
  PROVE  [Certificate!SNext]_Certificate!svars
<1>1. files.cert \in Nat /\ files.key \in Nat
  BY DEF Inv, TypeOK
<1>2. /\ f = "cert" => files' = [cert |-> files.cert + 1, key |-> files.key]
      /\ f = "key" => files' = [cert |-> files.cert, key |-> files.key + 1]
  <2>1. files \in Pairs
    BY DEF Inv, TypeOK
  <2>2. files' = [files EXCEPT ![f] = @ + 1]
    BY DEF BeginRotation, FinishRotation, Write
  <2>3. f = "cert" => files' = [cert |-> files.cert + 1, key |-> files.key]
    BY <2>1, <2>2
  <2>4. f = "key" => files' = [cert |-> files.cert, key |-> files.key + 1]
    BY <2>1, <2>2
  <2> QED BY <2>3, <2>4
<1>3. newest' = newest /\ main' = main /\ served' = served
  BY DEF BeginRotation, FinishRotation, Write
<1>4. CASE BeginRotation(f)
  <2>1. Published' = Published
    BY <1>1, <1>2, <1>4 DEF BeginRotation, Published
  <2> QED BY <1>3, <2>1 DEF Certificate!svars, Certificate!NoPair, HandshakePair
<1>5. CASE FinishRotation(f)
  <2>1. Published' = Published + 1
    BY <1>1, <1>2, <1>5 DEF FinishRotation, Published
  <2> QED BY <1>3, <2>1 DEF Certificate!SNext, Certificate!Publish, HandshakePair
<1> QED BY <1>4, <1>5

LEMMA ExitRefines ==
  ASSUME Exit
  PROVE  Certificate!SNext
<1>1. Published' = Published /\ newest' = newest /\ main' = "down"
  BY DEF Exit, Published
<1> QED BY <1>1 DEF Certificate!SNext, Certificate!Close, Certificate!NoPair, NoPair

(* What is presented from now on is a pair of one generation, complete and not  *)
(* older than what was presented before.                                        *)
LEMMA PresentRefines ==
  ASSUME Inv, NEW p \in Pairs, Sound(p),
         main' = "listening", served' = p, newest' = p.cert, UNCHANGED files
  PROVE  Certificate!SNext
<1>1. p.cert \in newest..Published
  BY PublishedFacts DEF Inv, TypeOK, Sound
<1>2. p = Certificate!Pair(p.cert)
  BY PairIsOneGeneration DEF Sound
<1>3. Published' = Published
  BY DEF Published
<1> QED BY <1>1, <1>2, <1>3 DEF Certificate!SNext, Certificate!Present, HandshakePair

LEMMA ListenKeyRefines ==
  ASSUME Inv, ListenKey
  PROVE  Certificate!SNext
<1>1. CASE Exit
  BY <1>1, ExitRefines
<1>2. CASE /\ main' = "listening"
           /\ newest' = HandshakePair.cert
           /\ UNCHANGED <<files, certRead, content, served, listener, threads>>
  <2>1. served \in Pairs /\ Sound(served)
    BY DEF ListenKey, Inv, TypeOK, Ordered, Loading
  <2> QED BY <1>2, <2>1, PresentRefines DEF HandshakePair
<1> QED BY <1>1, <1>2 DEF ListenKey

LEMMA SyncCertsRefines ==
  ASSUME Inv, SyncCerts
  PROVE  [Certificate!SNext]_Certificate!svars
<1>1. UNCHANGED <<files, main>> /\ served' = content
  BY DEF SyncCerts, Others
<1>2. CASE main = "listening"
  <2>1. content \in Pairs /\ Sound(content)
    BY <1>2 DEF Inv, TypeOK, Ordered, Loading
  <2>2. newest' = content.cert
    BY <1>1, <1>2 DEF SyncCerts, HandshakePair
  <2> QED BY <1>1, <1>2, <2>1, <2>2, PresentRefines
<1>3. CASE main # "listening"
  <2>1. newest' = newest
    BY <1>3 DEF SyncCerts
  <2> QED BY <1>1, <1>3, <2>1 DEF Certificate!svars, Published
<1> QED BY <1>2, <1>3

(* Steps before the server listens, and those of threads that serve nothing. *)
LEMMA OthersRefine ==
  ASSUME Inv,
         \/ Restart \/ LoadCert \/ RunOnce \/ Wire \/ ListenCert
         \/ LoaderStep \/ LoaderRetry \/ WatcherStep \/ WatcherFails \/ MinuteTick
         \/ UNCHANGED vars
  PROVE  UNCHANGED Certificate!svars
<1>1. UNCHANGED <<files, newest>>
  BY DEF Restart, LoadCert, RunOnce, Wire, ListenCert, LoaderStep, LoaderTake,
         LoaderReadCert, LoaderReadKey, LoaderNotify, LoaderRetry, WatcherStep,
         WatcherStart, WatcherArm, WatcherEvent, WatcherFails, MinuteTick, Others, vars
<1>2. \/ main # "listening" /\ main' # "listening"
      \/ UNCHANGED <<main, served>>
  BY DEF Restart, LoadCert, RunOnce, Wire, ListenCert, LoaderStep, LoaderTake,
         LoaderReadCert, LoaderReadKey, LoaderNotify, LoaderRetry, WatcherStep,
         WatcherStart, WatcherArm, WatcherEvent, WatcherFails, MinuteTick, Others,
         vars, process
<1> QED BY <1>1, <1>2 DEF Certificate!svars, Published, HandshakePair

(* A pair is never mixed, never incomplete and never older than one before, and *)
(* the server is not up without one.                                            *)
THEOREM ReloadRefinement == Spec => ImplementsServingCertificate
<1>1. Init => Certificate!SInit
  BY DEF Init, Certificate!SInit, Certificate!NoPair, Published, NoPair
<1>2. Inv /\ [Next]_vars => [Certificate!SNext]_Certificate!svars
  <2> SUFFICES ASSUME Inv, [Next]_vars PROVE [Certificate!SNext]_Certificate!svars
    OBVIOUS
  <2>1. CASE \E f \in Files : BeginRotation(f) \/ FinishRotation(f)
    BY <2>1, WriteRefines
  <2>2. CASE Crash
    BY <2>2, ExitRefines DEF Crash
  <2>3. CASE ListenKey
    BY <2>3, ListenKeyRefines
  <2>4. CASE SyncCerts
    BY <2>4, SyncCertsRefines
  <2>5. CASE LoadKey
    <3>1. CASE Exit
      BY <3>1, ExitRefines
    <3>2. CASE main' = "runOnce" /\ UNCHANGED <<files, certRead, served, static,
                                                listener, threads, newest>>
      BY <2>5, <3>2 DEF LoadKey, Certificate!svars, Published
    <3> QED BY <2>5, <3>1, <3>2 DEF LoadKey
  <2>6. CASE \/ Restart \/ LoadCert \/ RunOnce \/ Wire \/ ListenCert
             \/ LoaderStep \/ LoaderRetry \/ WatcherStep \/ WatcherFails
             \/ MinuteTick \/ UNCHANGED vars
    BY <2>6, OthersRefine
  <2> QED BY <2>1, <2>2, <2>3, <2>4, <2>5, <2>6 DEF Next, MainStep, Environment
<1> QED BY <1>1, <1>2, ReloadInvariance, PTL
        DEF Spec, ImplementsServingCertificate, Certificate!SSpec
================================================================================

----------------------------- MODULE BootProofs -----------------------------
(***************************************************************************)
(* Proofs about setup(), for any set of configuration files, any number of *)
(* retries and any number of resets, and about the configuration it reads, *)
(* for any texts of the file and any updates that are merged into it.      *)
(***************************************************************************)
EXTENDS Boot, ConfigFile, SequenceTheorems, TLAPS

-----------------------------------------------------------------------------
(* What a reset leaves has the right types. *)
Typed(st, mnt, dc, hs, rc, subs, apis, rts, srv) ==
  /\ st \in Stages
  /\ mnt \in BOOLEAN /\ hs \in BOOLEAN /\ srv \in BOOLEAN
  /\ dc \in [Fields -> Texts]
  /\ rc \in 0..Retries
  /\ subs \in Seq(Handlers)
  /\ apis \subseteq Apis
  /\ rts \subseteq Routes

LEMMA BlankIsTyped ==
  ASSUME NEW st, NEW mnt, NEW dc, NEW hs, NEW rc, NEW subs, NEW apis, NEW rts, NEW srv,
         Blank(st, mnt, dc, hs, rc, subs, apis, rts, srv)
  PROVE  Typed(st, mnt, dc, hs, rc, subs, apis, rts, srv)
<1>1. st \in Stages /\ mnt \in BOOLEAN /\ hs \in BOOLEAN /\ srv \in BOOLEAN
  BY DEF Blank, Stages
<1>2. dc \in [Fields -> Texts]
  BY DEF Blank, Unread, Texts
<1>3. rc \in 0..Retries
  BY BootAssumption DEF Blank
<1>4. subs \in Seq(Handlers)
  BY DEF Blank
<1>5. apis \subseteq Apis /\ rts \subseteq Routes
  BY DEF Blank
<1> QED
  BY <1>1, <1>2, <1>3, <1>4, <1>5 DEF Typed

(* TypeOK is inductive: in particular the retry counter stays in its range.  *)
THEOREM TypeCorrect == Spec => []TypeOK
<1>1. Init => TypeOK
  <2>1. 0 \in 0..MaxResets
    BY BootAssumption
  <2> QED
    BY <2>1, BlankIsTyped DEF Init, Typed, TypeOK
<1>2. TypeOK /\ [Next]_vars => TypeOK'
  <2> SUFFICES ASSUME TypeOK, [Next]_vars PROVE TypeOK'
    OBVIOUS
  <2>1. CASE InitFS
    BY <2>1 DEF InitFS, TypeOK, Stages
  <2>2. CASE LoadConfig
    <3>1. doc' \in [Fields -> Texts]
      BY <2>2, BootAssumption DEF LoadConfig, Readable, TypeOK
    <3> QED
      BY <2>2, <3>1 DEF LoadConfig, TypeOK, Stages
  <2>3. CASE ActivateWifiAP
    BY <2>3 DEF ActivateWifiAP, TypeOK, Stages
  <2>4. CASE LoadLanProfile
    BY <2>4 DEF LoadLanProfile, TypeOK, Stages
  <2>5. CASE AwaitLan
    <3>1. retryCounter' \in 0..Retries
      BY <2>5, BootAssumption DEF AwaitLan, Waits, TypeOK
    <3> QED
      BY <2>5, <3>1 DEF AwaitLan, Waits, TypeOK, Stages
  <2>6. CASE RegisterRoutes
    BY <2>6 DEF RegisterRoutes, TypeOK, Stages, Handlers, Routes
  <2>7. CASE LoraInit
    BY <2>7 DEF LoraInit, TypeOK, Stages, Apis
  <2>8. CASE RegisterModules
    <3>1. subscribers' \in Seq(Handlers)
      BY <2>8 DEF RegisterModules, TypeOK, Handlers
    <3> QED
      BY <2>8, <3>1 DEF RegisterModules, TypeOK, Stages, Apis
  <2>9. CASE StartServer
    BY <2>9 DEF StartServer, TypeOK, Stages
  <2>10. CASE RestartAfterAbort
    BY <2>10, BlankIsTyped DEF RestartAfterAbort, Reset, Typed, TypeOK
  <2>11. CASE PowerCut
    <3>1. resets' \in 0..MaxResets
      BY <2>11, BootAssumption DEF PowerCut, TypeOK
    <3> QED
      BY <2>11, <3>1, BlankIsTyped DEF PowerCut, Reset, Typed, TypeOK
  <2>12. CASE Update
    <3>1. resets' \in 0..MaxResets
      BY <2>12, BootAssumption DEF Update, TypeOK
    <3> QED
      BY <2>12, <3>1, BlankIsTyped DEF Update, Reset, Typed, TypeOK
  <2>13. CASE LanChanges
    BY <2>13 DEF LanChanges, memory, TypeOK
  <2>14. CASE UNCHANGED vars
    BY <2>14 DEF vars, memory, TypeOK
  <2>15. CASE StartUpdateService
    BY <2>15 DEF StartUpdateService, TypeOK, Stages, Routes
  <2> QED
    BY <2>1, <2>2, <2>3, <2>4, <2>5, <2>6, <2>7, <2>8, <2>9, <2>10, <2>11, <2>12, <2>13,
       <2>14, <2>15 DEF Next, Setup
<1> QED
  BY <1>1, <1>2, PTL DEF Spec

-----------------------------------------------------------------------------
(***************************************************************************)
(* What each stage of setup() may rely on: the document is the file once   *)
(* it is loaded, and the registrations are those of the stages passed.     *)
(***************************************************************************)
Loaded == stage \in Stages \ {"mount", "load", "aborted"}
Passed == stage \in Stages \ {"mount", "load", "hotspot", "address", "aborted"}
Serves == stage \in {"update", "ready"}

DocInv ==
  /\ Loaded => mounted /\ config # Missing /\ doc = config
  /\ Passed => Bootable(config)
  /\ stage = "aborted" => ~mounted \/ ~Bootable(config)
  /\ serverState => Serves

(* The first n handlers of the order are registered, and no other. *)
Prefix(s, n) ==
  /\ s \in Seq(Handlers)
  /\ Len(s) = n
  /\ \A i \in 1..n : s[i] = Order[i]

Registered(n, apis, rts) == Prefix(subscribers, n) /\ apiModules = apis /\ routes = rts

RegistryInv ==
  /\ serverState <=> Serves
  /\ stage \in {"mount", "load", "hotspot", "address", "connect", "register"}
       => Registered(0, {}, {})
  /\ stage = "radio" => Registered(1, {}, SecureRoutes)
  /\ stage = "modules" => Registered(1, {"Lora"}, SecureRoutes)
  /\ stage \in {"start", "update"} => Registered(4, Apis, SecureRoutes)
  /\ stage = "ready" => Registered(4, Apis, Routes)

(* A constructor that comes next registers next. *)
LEMMA Grow ==
  ASSUME NEW s, NEW n \in 0..3, Prefix(s, n),
         NEW h \in Handlers, h = Order[n + 1]
  PROVE  Prefix(Append(s, h), n + 1)
<1>1. Append(s, h) \in Seq(Handlers) /\ Len(Append(s, h)) = n + 1
  BY DEF Prefix
<1>2. ASSUME NEW i \in 1..(n + 1) PROVE Append(s, h)[i] = Order[i]
  BY DEF Prefix
<1> QED
  BY <1>1, <1>2 DEF Prefix

(* The three constructors of RegisterModules complete the order. *)
LEMMA Complete ==
  ASSUME NEW s, Prefix(s, 1)
  PROVE  Prefix(Append(Append(Append(s, "Notifier"), "TestModule"), "AlarmSystem"), 4)
<1>1. /\ Order[1 + 1] = "Notifier"
      /\ Order[2 + 1] = "TestModule"
      /\ Order[3 + 1] = "AlarmSystem"
  BY DEF Order
<1>2. "Notifier" \in Handlers /\ "TestModule" \in Handlers /\ "AlarmSystem" \in Handlers
  BY DEF Handlers
<1>3. Prefix(Append(s, "Notifier"), 2)
  BY <1>1, <1>2, Grow, 1 \in 0..3, 1 + 1 = 2
<1>4. Prefix(Append(Append(s, "Notifier"), "TestModule"), 3)
  BY <1>1, <1>2, <1>3, Grow, 2 \in 0..3, 2 + 1 = 3
<1> QED
  BY <1>1, <1>2, <1>4, Grow, 3 \in 0..3, 3 + 1 = 4

LEMMA InOrder ==
  ASSUME NEW s, Prefix(s, 4)
  PROVE  s = Order
<1>1. Order \in Seq(Handlers) /\ Len(Order) = 4
  BY DEF Order, Handlers
<1> QED
  BY <1>1 DEF Prefix

LEMMA NoneRegistered == Prefix(<< >>, 0)
BY DEF Prefix

(* The document that is read is the file, and the stages a file gets to are  *)
(* those that its static address allows.                                     *)
LEMMA DocInvHolds == Spec => []DocInv
<1>1. Init => DocInv
  BY DEF Init, Blank, DocInv, Loaded, Passed
<1>2. TypeOK /\ DocInv /\ [Next]_vars => DocInv'
  <2> SUFFICES ASSUME TypeOK, DocInv, [Next]_vars PROVE DocInv'
    OBVIOUS
  <2> USE DEF DocInv, Loaded, Passed, Serves
  <2>1. CASE InitFS
    BY <2>1 DEF InitFS
  <2>2. CASE LoadConfig
    BY <2>2 DEF LoadConfig, Readable, Stages, Bootable
  <2>3. CASE ActivateWifiAP
    BY <2>3 DEF ActivateWifiAP, Stages
  <2>4. CASE LoadLanProfile
    BY <2>4 DEF LoadLanProfile, NoStaticIP, Bootable, Stages
  <2>5. CASE AwaitLan
    BY <2>5 DEF AwaitLan, Waits, Stages
  <2>6. CASE RegisterRoutes \/ LoraInit \/ RegisterModules \/ StartServer \/ StartUpdateService
    BY <2>6 DEF RegisterRoutes, LoraInit, RegisterModules, StartServer, StartUpdateService, Stages
  <2>7. CASE RestartAfterAbort \/ PowerCut \/ Update
    BY <2>7 DEF RestartAfterAbort, PowerCut, Update, Reset, Blank
  <2>8. CASE LanChanges
    BY <2>8 DEF LanChanges, memory
  <2>9. CASE UNCHANGED vars
    BY <2>9 DEF vars, memory
  <2> QED
    BY <2>1, <2>2, <2>3, <2>4, <2>5, <2>6, <2>7, <2>8, <2>9 DEF Next, Setup
<1> QED
  BY <1>1, <1>2, TypeCorrect, PTL DEF Spec

(* No file is served with at one time and aborted on at another: the first   *)
(* needs a file that can be started from, and the second one that cannot.    *)
THEOREM TheFileDecides == Spec => FileDecides
<1> SUFFICES ASSUME NEW c \in Configs \cup {Missing}
             PROVE  Spec => \/ [](config = c => ~serverState)
                            \/ [](config = c /\ mounted => stage # "aborted")
  BY DEF FileDecides
<1>1. CASE Bootable(c)
  <2>1. DocInv => (config = c /\ mounted => stage # "aborted")
    BY <1>1 DEF DocInv
  <2> QED
    BY <2>1, DocInvHolds, PTL
<1>2. CASE ~Bootable(c)
  <2>1. DocInv => (config = c => ~serverState)
    BY <1>2 DEF DocInv, Serves, Passed, Stages
  <2> QED
    BY <2>1, DocInvHolds, PTL
<1> QED
  BY <1>1, <1>2

(* Whoever reaches the server of a device finds the routes of the secure     *)
(* one, every module and every handler registered, in the order of the       *)
(* constructors, and the update service too when setup() is done.            *)
THEOREM ServesCompletely == Spec => []ServesComplete
<1>1. Init => RegistryInv
  BY NoneRegistered DEF Init, Blank, RegistryInv, Registered, Serves
<1>2. TypeOK /\ RegistryInv /\ [Next]_vars => RegistryInv'
  <2> SUFFICES ASSUME TypeOK, RegistryInv, [Next]_vars PROVE RegistryInv'
    OBVIOUS
  <2> USE DEF RegistryInv, Registered, Serves
  <2>1. CASE InitFS
    BY <2>1 DEF InitFS
  <2>10. CASE LoadConfig
    BY <2>10 DEF LoadConfig
  <2>11. CASE ActivateWifiAP
    BY <2>11 DEF ActivateWifiAP
  <2>12. CASE LoadLanProfile
    BY <2>12 DEF LoadLanProfile
  <2>2. CASE AwaitLan
    BY <2>2 DEF AwaitLan, Waits
  <2>3. CASE RegisterRoutes
    <3>1. Prefix(subscribers', 1)
      <4>1. Order[0 + 1] = "SndNotif" /\ "SndNotif" \in Handlers
        BY DEF Order, Handlers
      <4>2. Prefix(subscribers, 0)
        BY <2>3 DEF RegisterRoutes
      <4> QED
        BY <2>3, <4>1, <4>2, Grow, 0 \in 0..3, 0 + 1 = 1 DEF RegisterRoutes
    <3> QED
      BY <2>3, <3>1 DEF RegisterRoutes
  <2>4. CASE LoraInit
    BY <2>4 DEF LoraInit
  <2>5. CASE RegisterModules
    <3>1. Prefix(subscribers', 4)
      BY <2>5, Complete DEF RegisterModules
    <3>2. apiModules' = Apis
      BY <2>5 DEF RegisterModules, Apis
    <3> QED
      BY <2>5, <3>1, <3>2 DEF RegisterModules
  <2>6. CASE StartServer
    BY <2>6 DEF StartServer
  <2>7. CASE RestartAfterAbort \/ PowerCut \/ Update
    BY <2>7, NoneRegistered DEF RestartAfterAbort, PowerCut, Update, Reset, Blank
  <2>8. CASE LanChanges
    BY <2>8 DEF LanChanges, memory
  <2>9. CASE UNCHANGED vars
    BY <2>9 DEF vars, memory
  <2>13. CASE StartUpdateService
    BY <2>13 DEF StartUpdateService, Routes
  <2> QED
    BY <2>1, <2>2, <2>3, <2>4, <2>5, <2>6, <2>7, <2>8, <2>9, <2>10,
       <2>11, <2>12, <2>13 DEF Next, Setup
<1>3. RegistryInv => ServesComplete
  BY InOrder DEF RegistryInv, Registered, Serves, Routes, ServesComplete
<1> QED
  BY <1>1, <1>2, <1>3, TypeCorrect, PTL DEF Spec

-----------------------------------------------------------------------------
(* The configuration file: the paths of documents.                           *)
JsonPaths == Seq(STRING)

(* The paths above one are its prefixes; they are ordered by length. *)
LEMMA PrefixIs ==
  ASSUME NEW p \in JsonPaths, NEW n \in 0..Len(p)
  PROVE  SubSeq(p, 1, n) \in JsonPaths /\ Len(SubSeq(p, 1, n)) = n
<1>1. Len(p) \in Nat
  BY LenProperties DEF JsonPaths
<1>2. \A i \in 1..n : i \in 1..Len(p) /\ p[i] \in STRING
  BY <1>1, ElementOfSeq DEF JsonPaths
<1> QED
  BY <1>1, <1>2, SubSeqProperties DEF JsonPaths

LEMMA UptoIsPrefix ==
  ASSUME NEW p \in JsonPaths, NEW q
  PROVE  q \in Upto(p) <=> \E n \in 0..Len(p) : q = SubSeq(p, 1, n) /\ Len(q) = n /\ q \in JsonPaths
  BY PrefixIs DEF Upto

LEMMA UptoEnds ==
  ASSUME NEW p \in JsonPaths
  PROVE  p \in Upto(p) /\ << >> \in Upto(p) /\ Len(p) \in Nat
<1>1. Len(p) \in Nat
  BY LenProperties DEF JsonPaths
<1>2. SubSeq(p, 1, Len(p)) = p
  BY SubSeqFull DEF JsonPaths
<1>3. SubSeq(p, 1, 0) = << >>
  BY SubSeqEmpty
<1>4. 0 \in 0..Len(p) /\ Len(p) \in 0..Len(p)
  BY <1>1
<1> QED
  BY <1>1, <1>2, <1>3, <1>4 DEF Upto

LEMMA UptoShorter ==
  ASSUME NEW p \in JsonPaths, NEW m \in 0..Len(p), NEW n \in 0..m
  PROVE  SubSeq(SubSeq(p, 1, m), 1, n) = SubSeq(p, 1, n)
<1>0. Len(p) \in Nat
  BY UptoEnds
<1>1. CASE n = 0
  BY <1>1, SubSeqEmpty
<1>2. CASE n # 0
  <2>1. m \in 1..Len(p) /\ n \in 1..m
    BY <1>0, <1>2
  <2> QED
    BY <1>0, <2>1, SubSeqOfSubSeq DEF JsonPaths
<1> QED
  BY <1>1, <1>2

LEMMA UptoOrder ==
  ASSUME NEW p \in JsonPaths, NEW q \in Upto(p)
  PROVE  /\ q \in JsonPaths /\ Len(q) <= Len(p) /\ Upto(q) \subseteq Upto(p)
         /\ p \in Upto(q) => p = q
         /\ Len(q) = Len(p) => p = q
         /\ \A r \in Upto(p) : r \in Upto(q) \/ q \in Upto(r)
<1>1. Len(p) \in Nat
  BY UptoEnds
<1>2. PICK n \in 0..Len(p) : q = SubSeq(p, 1, n) /\ Len(q) = n /\ q \in JsonPaths
  BY UptoIsPrefix
<1>3. \A r \in Upto(q) : Len(r) <= n /\ r \in Upto(p)
  <2> TAKE r \in Upto(q)
  <2>1. PICK k \in 0..n : r = SubSeq(q, 1, k) /\ Len(r) = k /\ r \in JsonPaths
    BY <1>2, UptoIsPrefix
  <2>2. r = SubSeq(p, 1, k) /\ k \in 0..Len(p)
    BY <1>1, <1>2, <2>1, UptoShorter
  <2> QED
    BY <2>1, <2>2, UptoIsPrefix
<1>4. n = Len(p) => p = q
  BY <1>2, SubSeqFull DEF JsonPaths
<1>5. ASSUME NEW r \in Upto(p)
      PROVE  r \in Upto(q) \/ q \in Upto(r)
  <2>1. PICK k \in 0..Len(p) : r = SubSeq(p, 1, k) /\ Len(r) = k /\ r \in JsonPaths
    BY UptoIsPrefix
  <2>2. CASE k <= n
    <3>1. k \in 0..n /\ r = SubSeq(q, 1, k)
      BY <1>1, <1>2, <2>1, <2>2, UptoShorter
    <3> QED
      BY <1>2, <2>1, <3>1, UptoIsPrefix
  <2>3. CASE n <= k
    <3>1. n \in 0..k /\ q = SubSeq(r, 1, n)
      BY <1>1, <1>2, <2>1, <2>3, UptoShorter
    <3> QED
      BY <1>2, <2>1, <3>1, UptoIsPrefix
  <2> QED
    BY <1>1, <2>2, <2>3
<1> QED
  BY <1>1, <1>2, <1>3, <1>4, <1>5

(* Above a path that is not the root are its parent and all above that. *)
LEMMA UptoParent ==
  ASSUME NEW p \in JsonPaths, p # << >>
  PROVE  /\ Parent(p) \in JsonPaths /\ Parent(p) \in Upto(p) \ {p} /\ Len(Parent(p)) = Len(p) - 1
         /\ Upto(p) \ {p} = Upto(Parent(p))
<1>1. Len(p) \in Nat \ {0}
  BY UptoEnds, EmptySeq DEF JsonPaths
<1>2. /\ Parent(p) = SubSeq(p, 1, Len(p) - 1) /\ Len(p) - 1 \in 0..Len(p)
  BY <1>1 DEF Parent
<1>3. Parent(p) \in Upto(p)
  BY <1>2 DEF Upto
<1>4. \E n \in 0..Len(p) : Parent(p) = SubSeq(p, 1, n) /\ Len(Parent(p)) = n /\ Parent(p) \in JsonPaths
  BY <1>3, UptoIsPrefix
<1>5. Len(Parent(p)) = Len(p) - 1
  BY <1>2, PrefixIs
<1>6. Upto(Parent(p)) \subseteq Upto(p) \ {p}
  BY <1>1, <1>3, <1>5, UptoOrder
<1>7. ASSUME NEW q \in Upto(p) \ {p}
      PROVE  q \in Upto(Parent(p))
  <2>1. q \in JsonPaths /\ Len(q) <= Len(p) /\ Len(q) # Len(p) /\ Len(q) \in Nat
    BY <1>7, UptoOrder, UptoEnds
  <2>2. CASE Parent(p) \in Upto(q)
    <3>1. Len(q) <= Len(Parent(p)) /\ Len(Parent(p)) <= Len(q)
      BY <1>1, <1>5, <2>1, <2>2, UptoOrder
    <3>2. q = Parent(p)
      BY <1>1, <1>5, <2>1, <2>2, <3>1, UptoOrder
    <3> QED
      BY <1>4, <3>2, UptoEnds
  <2> QED
    BY <1>3, <1>7, <2>2, UptoOrder
<1> QED
  BY <1>1, <1>3, <1>4, <1>5, <1>6, <1>7, UptoEnds

(* On the way down from a path to one below it is a child of the first. *)
LEMMA ChildOnTheWay ==
  ASSUME NEW q \in JsonPaths, NEW p \in Upto(q), p # q
  PROVE  \E c \in Upto(q) : c # << >> /\ Parent(c) = p
<1>1. Len(q) \in Nat
  BY UptoEnds
<1>2. PICK n \in 0..Len(q) : p = SubSeq(q, 1, n) /\ Len(p) = n /\ p \in JsonPaths
  BY UptoIsPrefix
<1>3. n # Len(q)
  BY <1>2, SubSeqFull DEF JsonPaths
<1>4. n + 1 \in 0..Len(q) /\ n \in 0..(n + 1)
  BY <1>1, <1>3
<1> DEFINE c == SubSeq(q, 1, n + 1)
<1>5. c \in JsonPaths /\ Len(c) = n + 1
  BY <1>4, PrefixIs
<1>6. SubSeq(c, 1, n) = p
  BY <1>2, <1>4, UptoShorter
<1> HIDE DEF c
<1>7. c # << >>
  BY <1>1, <1>2, <1>5, EmptySeq
<1>8. Parent(c) = p
  BY <1>1, <1>2, <1>5, <1>6 DEF Parent
<1>9. c \in Upto(q)
  BY <1>4 DEF Upto, c
<1> QED
  BY <1>7, <1>8, <1>9

-----------------------------------------------------------------------------
(* Documents. *)
Agree(f, g, r) == (r \in DOMAIN f <=> r \in DOMAIN g) /\ (r \in DOMAIN f => f[r] = g[r])

LEMMA DocumentIs ==
  ASSUME NEW d, IsDocument(d)
  PROVE  /\ << >> \in DOMAIN d
         /\ \A p \in DOMAIN d : p \in JsonPaths /\ p \in Upto(p)
         /\ \A p \in DOMAIN d : \A q \in Upto(p) : q # p => q \in DOMAIN d /\ d[q] = Object
<1>1. DOMAIN d \subseteq JsonPaths
  BY DEF IsDocument, JsonPaths
<1> QED
  BY <1>1, UptoEnds DEF IsDocument

(* A document that has anything below a path has a member there. *)
LEMMA MemberOnTheWay ==
  ASSUME NEW d, IsDocument(d), NEW q \in DOMAIN d, NEW p \in Upto(q), p # q
  PROVE  \E c \in Members(d, p) : c \in Upto(q)
<1>1. PICK c \in Upto(q) : c # << >> /\ Parent(c) = p
  BY DocumentIs, ChildOnTheWay
<1>2. c \in DOMAIN d
  BY <1>1, DocumentIs
<1> QED
  BY <1>1, <1>2 DEF Members

LEMMA MembersAre ==
  ASSUME NEW d, IsDocument(d), NEW p, NEW c \in Members(d, p)
  PROVE  /\ c \in DOMAIN d \ {<< >>} /\ c \in JsonPaths
         /\ p \in Upto(c) \ {c} /\ Upto(c) \ {c} = Upto(p) /\ Len(p) = Len(c) - 1 /\ Len(c) \in Nat
         /\ d[p] = Object
<1>1. c \in DOMAIN d /\ c \in JsonPaths /\ c # << >> /\ Parent(c) = p
  BY DocumentIs DEF Members
<1>2. p \in Upto(c) \ {c} /\ Upto(c) \ {c} = Upto(p) /\ Len(p) = Len(c) - 1
  BY <1>1, UptoParent
<1> QED
  BY <1>1, <1>2, DocumentIs, UptoEnds

LEMMA DocumentsEqual ==
  ASSUME NEW d, NEW e, IsDocument(d), e = [p \in DOMAIN e |-> e[p]], DOMAIN e \subseteq JsonPaths,
         \A r \in JsonPaths : Agree(d, e, r)
  PROVE  d = e
<1>1. DOMAIN d \subseteq JsonPaths /\ d = [p \in DOMAIN d |-> d[p]]
  BY DEF IsDocument, JsonPaths
<1>2. DOMAIN d = DOMAIN e /\ \A p \in DOMAIN d : d[p] = e[p]
  BY <1>1 DEF Agree
<1> QED
  BY <1>1, <1>2

(* What an assignment does, path by path. *)
LEMMA AssignAt ==
  ASSUME NEW d, NEW s, IsDocument(d), IsDocument(s), NEW p \in DOMAIN s \ {<< >>},
         Parent(p) \in DOMAIN d, d[Parent(p)] \in {Object, Null}
  PROVE  /\ IsDocument(Assign(d, p, s))
         /\ \A r : p \in Upto(r) => Agree(Assign(d, p, s), s, r)
         /\ \A r : p \notin Upto(r) /\ r # Parent(p) => Agree(Assign(d, p, s), d, r)
         /\ Assign(d, p, s)[Parent(p)] = Object
<1> DEFINE e == [d EXCEPT ![Parent(p)] = Object]
           new == {q \in DOMAIN s : p \in Upto(q)}
           old == {q \in DOMAIN e : p \notin Upto(q)}
           a == [q \in new \cup old |-> IF q \in new THEN s[q] ELSE e[q]]
<1>1. Assign(d, p, s) = a
  BY DEF Assign, Graft
<1>2. p \in JsonPaths /\ p # << >> /\ Parent(p) \in Upto(p) /\ Upto(p) \ {p} = Upto(Parent(p))
  BY DocumentIs, UptoParent
<1>3. DOMAIN e = DOMAIN d /\ e[Parent(p)] = Object /\ \A q \in DOMAIN d : q # Parent(p) => e[q] = d[q]
  OBVIOUS
<1>4. p \notin Upto(Parent(p))
  BY <1>2
<1>5. \A r \in new \cup old : a[r] = IF r \in new THEN s[r] ELSE e[r]
  OBVIOUS
<1>6. DOMAIN a = new \cup old
  OBVIOUS
<1>7. Parent(p) \in old /\ Parent(p) \notin new
  BY <1>3, <1>4
<1> HIDE DEF a, e
<1>8. \A r : p \in Upto(r) => Agree(a, s, r)
  BY <1>5, <1>6 DEF Agree
<1>9. \A r : p \notin Upto(r) /\ r # Parent(p) => Agree(a, d, r)
  BY <1>3, <1>5, <1>6 DEF Agree
<1>10. a[Parent(p)] = Object
  BY <1>3, <1>5, <1>7
<1>11. ASSUME NEW q \in DOMAIN a, NEW u \in Upto(q), u # q
       PROVE  u \in DOMAIN a /\ a[u] = Object
  <2>1. CASE q \in new /\ p \in Upto(u)
    BY <1>5, <1>6, <1>11, <2>1, DocumentIs
  <2>2. CASE q \in new /\ p \notin Upto(u)
    <3>1. q \in JsonPaths /\ p \in Upto(q)
      BY <2>2, DocumentIs
    <3>2. u \in Upto(p) /\ u # p
      BY <1>2, <1>11, <2>2, <3>1, UptoOrder, UptoEnds
    <3>3. u \in Upto(Parent(p))
      BY <1>2, <3>2
    <3>4. u \in DOMAIN d /\ (u # Parent(p) => d[u] = Object)
      BY <3>3, DocumentIs
    <3> QED
      BY <1>3, <1>5, <1>6, <2>2, <3>4
  <2>3. CASE q \in old
    <3>1. q \in JsonPaths /\ q \in DOMAIN d /\ p \notin Upto(q)
      BY <1>3, <2>3, DocumentIs
    <3>2. p \notin Upto(u)
      BY <1>11, <3>1, UptoOrder
    <3>3. u \in DOMAIN d /\ d[u] = Object
      BY <1>11, <3>1, DocumentIs
    <3> QED
      BY <1>3, <1>5, <1>6, <3>2, <3>3
  <2> QED
    BY <1>6, <2>1, <2>2, <2>3
<1>12. a = [q \in DOMAIN a |-> a[q]]
  BY <1>6 DEF a
<1>13. << >> \in DOMAIN a /\ DOMAIN a \subseteq Seq(STRING)
  <2>1. << >> \in DOMAIN d /\ << >> \in JsonPaths
    BY DocumentIs
  <2>2. Len(<< >>) = 0 /\ p \notin Upto(<< >>)
    <3>1. ASSUME p \in Upto(<< >>) PROVE p = << >>
      BY <1>2, <2>1, <3>1, UptoOrder, UptoEnds
    <3> QED
      BY <1>2, <3>1, EmptySeq
  <2>3. DOMAIN d \subseteq Seq(STRING) /\ DOMAIN s \subseteq Seq(STRING)
    BY DEF IsDocument
  <2> QED
    BY <1>3, <1>6, <2>1, <2>2, <2>3
<1>14. IsDocument(a)
  BY <1>11, <1>12, <1>13 DEF IsDocument
<1> QED
  BY <1>1, <1>8, <1>9, <1>10, <1>14

-----------------------------------------------------------------------------
(* The reference, path by path. *)
Trivial(o, s) == DOMAIN s = {<< >>} /\ s[<< >>] = Object /\ o[<< >>] = Null
Above(p) == Upto(p) \ {p}

LEMMA OverlayAt ==
  ASSUME NEW o, NEW s, ~Trivial(o, s), NEW r
  PROVE  /\ r \in DOMAIN s /\ ~InTheWay(o, s, r) => Agree(Overlay(o, s), s, r)
         /\ r \notin DOMAIN s /\ Covers(o, s, r) /\ ~InTheWay(o, s, r) => r \notin DOMAIN Overlay(o, s)
         /\ r \notin DOMAIN s /\ ~Covers(o, s, r) => Agree(Overlay(o, s), o, r)
         /\ InTheWay(o, s, r) => Agree(Overlay(o, s), o, r)
<1> DEFINE fromS == {p \in DOMAIN s : ~InTheWay(o, s, p)}
           fromD == {p \in DOMAIN o \ fromS : ~Covers(o, s, p) \/ InTheWay(o, s, p)}
           R == [p \in fromS \cup fromD |-> IF p \in fromS THEN s[p] ELSE o[p]]
<1>1. Overlay(o, s) = R
  BY DEF Overlay, Trivial
<1>2. DOMAIN R = fromS \cup fromD /\ \A q \in fromS \cup fromD : R[q] = IF q \in fromS THEN s[q] ELSE o[q]
  OBVIOUS
<1> HIDE DEF R
<1> QED
  BY <1>1, <1>2 DEF Agree

LEMMA OverlayOnPaths ==
  ASSUME NEW o, NEW s, IsDocument(o), IsDocument(s)
  PROVE  /\ Overlay(o, s) = [p \in DOMAIN Overlay(o, s) |-> Overlay(o, s)[p]]
         /\ DOMAIN Overlay(o, s) \subseteq JsonPaths
<1>1. CASE Trivial(o, s)
  BY <1>1 DEF Trivial, Overlay, IsDocument, JsonPaths
<1>2. CASE ~Trivial(o, s)
  <2> DEFINE fromS == {p \in DOMAIN s : ~InTheWay(o, s, p)}
             fromD == {p \in DOMAIN o \ fromS : ~Covers(o, s, p) \/ InTheWay(o, s, p)}
             R == [p \in fromS \cup fromD |-> IF p \in fromS THEN s[p] ELSE o[p]]
  <2>1. Overlay(o, s) = R
    BY <1>2 DEF Overlay, Trivial
  <2>2. DOMAIN R \subseteq JsonPaths
    BY DEF IsDocument, JsonPaths
  <2>3. R = [p \in DOMAIN R |-> R[p]]
    OBVIOUS
  <2> QED
    BY <2>1, <2>2, <2>3
<1> QED
  BY <1>1, <1>2

(* Nothing stands in the way of p: all that mergeJson went through on its way *)
(* there are objects in both, or the root of o is null.                       *)
LEMMA OnTheWayTo ==
  ASSUME NEW o, NEW s, IsDocument(o), IsDocument(s), NEW p \in DOMAIN s \ {<< >>},
         \A q \in Above(p) : q = << >> \/ Holds(o, q)
  PROVE  /\ p \in JsonPaths /\ Above(p) = Upto(Parent(p)) /\ Parent(p) \in Above(p)
         /\ Parent(p) \in DOMAIN o /\ Parent(p) \in DOMAIN s /\ s[Parent(p)] = Object
         /\ ~Trivial(o, s)
         /\ \A q \in Above(p) : q # Parent(p) => q \in DOMAIN o /\ o[q] = Object
         /\ Parent(p) # << >> => o[Parent(p)] \notin Falsy
<1>1. p \in JsonPaths /\ p # << >> /\ Above(p) = Upto(Parent(p)) /\ Parent(p) \in Above(p)
  BY DocumentIs, UptoParent DEF Above
<1>2. Parent(p) \in DOMAIN o
  BY <1>1, DocumentIs DEF Holds
<1>3. \A q \in Above(p) : q # Parent(p) => q \in DOMAIN o /\ o[q] = Object
  BY <1>1, <1>2, DocumentIs
<1> QED
  BY <1>1, <1>2, <1>3, DocumentIs DEF Above, Holds, Trivial

(* A member of a value that is no object is not there and never will be. *)
LEMMA KeptWhole ==
  ASSUME NEW o, NEW s, IsDocument(o), IsDocument(s), NEW p \in DOMAIN s \ {<< >>},
         \A q \in Above(p) : q = << >> \/ Holds(o, q), o[Parent(p)] \notin {Object, Null},
         NEW r \in JsonPaths, p \in Upto(r)
  PROVE  Agree(Overlay(o, s), o, r)
<1>1. Parent(p) \in Upto(r)
  BY OnTheWayTo, UptoOrder DEF Above
<1>2. InTheWay(o, s, r)
  BY <1>1, OnTheWayTo DEF InTheWay
<1> QED
  BY <1>2, OnTheWayTo, OverlayAt

(* What the update has at a member it need not enter is all there will be. *)
LEMMA TakenWhole ==
  ASSUME NEW o, NEW s, IsDocument(o), IsDocument(s), NEW p \in DOMAIN s \ {<< >>},
         \A q \in Above(p) : q = << >> \/ Holds(o, q), o[Parent(p)] \in {Object, Null},
         ~(Holds(o, p) /\ s[p] = Object),
         NEW r \in JsonPaths, p \in Upto(r)
  PROVE  Agree(Overlay(o, s), s, r)
<1>1. ASSUME NEW q \in Upto(r) \cap DOMAIN o \cap DOMAIN s, s[q] = Object
      PROVE  o[q] = Object \/ o[q] \in (IF q = << >> THEN {Null} ELSE Falsy)
  <2>1. q \in Upto(p) \/ (p \in Upto(q) /\ p # q)
    BY <1>1, UptoOrder
  <2>2. CASE q \in Above(p)
    <3>1. CASE q # Parent(p)
      BY <2>2, <3>1, OnTheWayTo
    <3>2. CASE q = Parent(p)
      <4>1. Parent(p) # << >> => o[Parent(p)] \notin Falsy
        BY OnTheWayTo
      <4> QED
        BY <3>2, <4>1 DEF Falsy
    <3> QED
      BY <3>1, <3>2
  <2>3. CASE q = p
    BY <1>1, <2>3 DEF Holds
  <2>4. CASE p \in Upto(q) /\ p # q
    <3>1. p \in DOMAIN o /\ o[p] = Object /\ s[p] = Object
      BY <2>4, DocumentIs
    <3>2. Object \notin Falsy
      BY DEF Object, Falsy, Null
    <3> QED
      BY <3>1, <3>2 DEF Holds
  <2> QED
    BY <2>1, <2>2, <2>3, <2>4 DEF Above
<1>2. ~InTheWay(o, s, r)
  BY <1>1 DEF InTheWay
<1>3. CASE r \in DOMAIN s
  BY <1>2, <1>3, OnTheWayTo, OverlayAt
<1>4. CASE r \notin DOMAIN s
  <2>1. CASE r \in DOMAIN o
    <3>1. p \in DOMAIN o
      BY <2>1, DocumentIs
    <3>2. Covers(o, s, r)
      BY <3>1 DEF Covers, Holds
    <3> QED
      BY <1>2, <1>4, <3>2, OnTheWayTo, OverlayAt DEF Agree
  <2>2. CASE r \notin DOMAIN o
    <3>1. r \notin DOMAIN Overlay(o, s)
      BY <1>2, <1>4, <2>2, OnTheWayTo, OverlayAt DEF Agree
    <3> QED
      BY <1>4, <3>1 DEF Agree
  <2> QED
    BY <2>1, <2>2
<1> QED
  BY <1>3, <1>4

(* A member that mergeJson enters keeps its own value ... *)
LEMMA Entered ==
  ASSUME NEW o, NEW s, IsDocument(o), IsDocument(s), NEW p \in DOMAIN s \ {<< >>},
         \A q \in Above(p) : q = << >> \/ Holds(o, q), Holds(o, p), s[p] = Object
  PROVE  Agree(Overlay(o, s), o, p)
<1>1. p \in DOMAIN o /\ o[p] \notin Falsy /\ p \in Upto(p)
  BY DocumentIs DEF Holds
<1>2. CASE o[p] = Object
  <2>1. \A q \in Above(p) : q \in DOMAIN o /\ o[q] = Object
    BY <1>1, DocumentIs DEF Above
  <2>2. ~InTheWay(o, s, p)
    BY <1>2, <2>1 DEF InTheWay, Above
  <2>3. Agree(Overlay(o, s), s, p)
    BY <2>2, OnTheWayTo, OverlayAt
  <2> QED
    BY <1>1, <1>2, <2>3 DEF Agree
<1>3. CASE o[p] # Object
  <2>1. InTheWay(o, s, p)
    BY <1>1, <1>3 DEF InTheWay
  <2> QED
    BY <2>1, OnTheWayTo, OverlayAt
<1> QED
  BY <1>2, <1>3

(* ... and all below it that the update does not name. *)
LEMMA BesideMembers ==
  ASSUME NEW o, NEW s, IsDocument(o), IsDocument(s), NEW p \in DOMAIN s, s[p] = Object,
         NEW r \in JsonPaths, p \in Upto(r), p # r, \A c \in Members(s, p) : c \notin Upto(r)
  PROVE  Agree(Overlay(o, s), o, r)
<1>1. CASE Trivial(o, s)
  BY <1>1 DEF Trivial, Overlay, Agree
<1>2. CASE ~Trivial(o, s)
  <2>1. \A q \in Upto(r) \cap DOMAIN s : q \in Upto(p)
    <3> SUFFICES ASSUME NEW q \in Upto(r) \cap DOMAIN s, q \notin Upto(p) PROVE FALSE
      OBVIOUS
    <3>1. p \in Upto(q) /\ p # q
      BY UptoOrder, UptoEnds, DocumentIs
    <3>2. PICK c \in Members(s, p) : c \in Upto(q)
      BY <3>1, MemberOnTheWay
    <3> QED
      BY <3>2, UptoOrder
  <2>2. r \notin DOMAIN s
    BY <2>1, UptoOrder, UptoEnds
  <2>3. CASE r \notin DOMAIN o
    <3>1. r \notin DOMAIN Overlay(o, s)
      BY <1>2, <2>2, <2>3, OverlayAt DEF Agree
    <3> QED
      BY <2>3, <3>1 DEF Agree
  <2>4. CASE r \in DOMAIN o
    <3>1. \A q \in Upto(p) : q \in DOMAIN o /\ o[q] = Object
      <4> TAKE q \in Upto(p)
      <4>1. q \in Upto(r) /\ q # r
        BY UptoOrder
      <4> QED
        BY <2>4, <4>1, DocumentIs
    <3>2. \A q \in Upto(p) : s[q] = Object
      BY DocumentIs
    <3>3. ~Covers(o, s, r)
      BY <2>1, <3>1, <3>2 DEF Covers, Falsy, Object, Null
    <3> QED
      BY <1>2, <2>2, <3>3, OverlayAt
  <2> QED
    BY <2>3, <2>4
<1> QED
  BY <1>1, <1>2

LEMMA TheRoot == << >> \in JsonPaths /\ Upto(<< >>) = {<< >>} /\ Len(<< >>) = 0
<1>1. << >> \in JsonPaths
  BY DEF JsonPaths
<1>2. \A q \in Upto(<< >>) : q = << >>
  BY <1>1, UptoOrder, UptoEnds
<1> QED
  BY <1>1, <1>2, UptoEnds

LEMMA OverlayRoot ==
  ASSUME NEW o, NEW s, IsDocument(o), IsDocument(s), s[<< >>] = Object, ~Trivial(o, s)
  PROVE  /\ << >> \in DOMAIN Overlay(o, s)
         /\ Overlay(o, s)[<< >>] = IF o[<< >>] = Null THEN Object ELSE o[<< >>]
<1>1. << >> \in DOMAIN o /\ << >> \in DOMAIN s
  BY DocumentIs
<1>2. InTheWay(o, s, << >>) <=> o[<< >>] # Object /\ o[<< >>] # Null
  BY <1>1, TheRoot DEF InTheWay
<1> QED
  BY <1>1, <1>2, OverlayAt DEF Agree

-----------------------------------------------------------------------------
(* The cases in which mergeJson has nothing to look at. *)
LEMMA Replaced ==
  ASSUME NEW o, NEW s, IsDocument(o), IsDocument(s), s[<< >>] # Object
  PROVE  Overlay(o, s) = s
<1>1. ~Trivial(o, s) /\ << >> \in DOMAIN o /\ << >> \in DOMAIN s
  BY DocumentIs DEF Trivial
<1>2. \A r \in JsonPaths : r \in DOMAIN s => r = << >>
  <2> SUFFICES ASSUME NEW r \in JsonPaths, r \in DOMAIN s PROVE r = << >>
    OBVIOUS
  <2> QED
    BY UptoEnds, DocumentIs
<1>3. ASSUME NEW r \in JsonPaths PROVE Agree(s, Overlay(o, s), r)
  <2>1. << >> \in Upto(r)
    BY UptoEnds
  <2>2. Covers(o, s, r)
    BY <1>1, <2>1 DEF Covers
  <2>3. ~InTheWay(o, s, r)
    BY <1>2, UptoOrder DEF InTheWay
  <2>4. CASE r \in DOMAIN s
    <3>1. Agree(Overlay(o, s), s, r)
      BY <1>1, <2>3, <2>4, OverlayAt
    <3> QED
      BY <3>1 DEF Agree
  <2>5. CASE r \notin DOMAIN s
    <3>1. r \notin DOMAIN Overlay(o, s)
      BY <1>1, <2>2, <2>3, <2>5, OverlayAt
    <3> QED
      BY <2>5, <3>1 DEF Agree
  <2> QED
    BY <2>4, <2>5
<1> QED
  BY <1>3, OverlayOnPaths, DocumentsEqual

LEMMA NothingToMerge ==
  ASSUME NEW o, NEW s, IsDocument(o), IsDocument(s), s[<< >>] = Object, Members(s, << >>) = {}
  PROVE  Overlay(o, s) = o
<1>1. CASE Trivial(o, s)
  BY <1>1 DEF Trivial, Overlay
<1>2. CASE ~Trivial(o, s)
  <2>1. << >> \in DOMAIN s /\ << >> \in DOMAIN o /\ DOMAIN s \subseteq JsonPaths
    BY DocumentIs
  <2>2. DOMAIN s = {<< >>}
    <3> SUFFICES ASSUME NEW q \in DOMAIN s, q # << >> PROVE FALSE
      BY <2>1
    <3> QED
      BY <2>1, UptoEnds, MemberOnTheWay
  <2>3. o[<< >>] # Null
    BY <1>2, <2>2 DEF Trivial
  <2>4. ASSUME NEW r \in JsonPaths PROVE Agree(o, Overlay(o, s), r)
    <3>1. CASE r = << >>
      BY <1>2, <2>1, <2>3, <3>1, OverlayRoot DEF Agree
    <3>2. CASE r # << >>
      <4>1. Agree(Overlay(o, s), o, r)
        BY <2>1, <3>2, UptoEnds, BesideMembers
      <4> QED
        BY <4>1 DEF Agree
    <3> QED
      BY <3>1, <3>2
  <2> QED
    BY <2>4, OverlayOnPaths, DocumentsEqual
<1> QED
  BY <1>1, <1>2

-----------------------------------------------------------------------------
(* In the middle of merging s into o: at and below the members in L nothing *)
(* has happened yet, everywhere else the document is what it will be.       *)
Waiting(L, r) == \E p \in L : p \in Upto(r)

MergedSoFar(d, o, s, L) ==
  /\ IsDocument(d) /\ IsDocument(o) /\ IsDocument(s)
  /\ s[<< >>] = Object /\ Members(s, << >>) # {}
  /\ L \subseteq DOMAIN s \ {<< >>}
  /\ \A p, q \in L : p \in Upto(q) => p = q
  /\ \A p \in L : \A q \in Above(p) : q = << >> \/ Holds(o, q)
  /\ \A r \in JsonPaths \ {<< >>} : Agree(d, IF Waiting(L, r) THEN o ELSE Overlay(o, s), r)
  /\ d[<< >>] = IF o[<< >>] = Null /\ L # Members(s, << >>) THEN Object ELSE o[<< >>]

(* Before the first member nothing has happened ... *)
LEMMA MergeStarts ==
  ASSUME NEW o, NEW s, IsDocument(o), IsDocument(s), s[<< >>] = Object, Members(s, << >>) # {}
  PROVE  MergedSoFar(o, o, s, Members(s, << >>))
<1> DEFINE L == Members(s, << >>)
<1>1. << >> \in DOMAIN s
  BY DocumentIs
<1>2. \A p, q \in L : p \in Upto(q) => p = q
  <2> SUFFICES ASSUME NEW p \in L, NEW q \in L, p \in Upto(q) PROVE p = q
    OBVIOUS
  <2>1. Len(p) = Len(q) /\ q \in JsonPaths
    BY MembersAre, TheRoot
  <2> QED
    BY <2>1, UptoOrder
<1>3. \A p \in L : \A q \in Above(p) : q = << >>
  BY MembersAre, TheRoot DEF Above
<1>4. L \subseteq DOMAIN s \ {<< >>}
  BY MembersAre
<1>5. ASSUME NEW r \in JsonPaths \ {<< >>}
      PROVE  Agree(o, IF Waiting(L, r) THEN o ELSE Overlay(o, s), r)
  <2>1. CASE Waiting(L, r)
    BY <2>1 DEF Agree
  <2>2. CASE ~Waiting(L, r)
    <3>1. \A c \in L : c \notin Upto(r)
      BY <2>2 DEF Waiting
    <3>2. Agree(Overlay(o, s), o, r)
      BY <1>1, <3>1, UptoEnds, BesideMembers
    <3> QED
      BY <2>2, <3>2 DEF Agree
  <2> QED
    BY <2>1, <2>2
<1> QED
  BY <1>2, <1>3, <1>4, <1>5 DEF MergedSoFar

(* ... and when no member waits, all has. *)
LEMMA MergeEnds ==
  ASSUME NEW d, NEW o, NEW s, MergedSoFar(d, o, s, {})
  PROVE  d = Overlay(o, s)
<1>1. /\ IsDocument(d) /\ IsDocument(o) /\ IsDocument(s)
      /\ s[<< >>] = Object /\ Members(s, << >>) # {}
      /\ d[<< >>] = IF o[<< >>] = Null THEN Object ELSE o[<< >>]
  BY DEF MergedSoFar
<1>2. ~Trivial(o, s)
  BY <1>1, MembersAre DEF Trivial
<1>3. << >> \in DOMAIN d
  BY <1>1, DocumentIs
<1>4. Agree(d, Overlay(o, s), << >>)
  BY <1>1, <1>2, <1>3, OverlayRoot DEF Agree
<1>5. \A r : ~Waiting({}, r)
  BY DEF Waiting
<1>6. \A r \in JsonPaths \ {<< >>} : Agree(d, Overlay(o, s), r)
  BY <1>5 DEF MergedSoFar
<1> QED
  BY <1>1, <1>4, <1>6, OverlayOnPaths, DocumentsEqual

(* mergeJson calls itself on p: the members of p wait instead of it. *)
LEMMA MergeDescends ==
  ASSUME NEW d, NEW o, NEW s, NEW L, MergedSoFar(d, o, s, L), NEW p \in L,
         Holds(d, p), s[p] = Object
  PROVE  MergedSoFar(d, o, s, (L \ {p}) \cup Members(s, p))
<1> DEFINE M == (L \ {p}) \cup Members(s, p)
<1>1. /\ IsDocument(d) /\ IsDocument(o) /\ IsDocument(s)
      /\ p \in DOMAIN s \ {<< >>} /\ p \in JsonPaths /\ p \in Upto(p)
      /\ \A q \in Above(p) : q = << >> \/ Holds(o, q)
  BY DocumentIs DEF MergedSoFar
<1>2. Agree(d, o, p)
  BY <1>1 DEF MergedSoFar, Waiting
<1>3. Holds(o, p)
  BY <1>2 DEF Agree, Holds
<1>4. \A c \in Members(s, p) : c \in DOMAIN s \ {<< >>} /\ c \in JsonPaths /\ p \in Upto(c)
                               /\ Above(c) = Upto(p) /\ Len(p) = Len(c) - 1 /\ Len(c) \in Nat
  BY <1>1, MembersAre DEF Above
<1>5. M \subseteq DOMAIN s \ {<< >>}
  BY <1>4 DEF MergedSoFar
<1>6. ASSUME NEW a \in M, NEW b \in M, a \in Upto(b) PROVE a = b
  <2>1. a \in JsonPaths /\ b \in JsonPaths
    BY <1>1, <1>5, DocumentIs
  <2>2. CASE a \in L \ {p} /\ b \in L \ {p}
    BY <1>6, <2>2 DEF MergedSoFar
  <2>3. CASE a \in Members(s, p) /\ b \in L \ {p}
    <3>1. p \in Upto(b)
      BY <1>4, <1>6, <2>1, <2>3, UptoOrder
    <3> QED
      BY <2>3, <3>1 DEF MergedSoFar
  <2>4. CASE a \in L \ {p} /\ b \in Members(s, p)
    <3>1. a = b \/ a \in Upto(p)
      BY <1>4, <1>6, <2>4 DEF Above
    <3> QED
      BY <2>4, <3>1 DEF MergedSoFar
  <2>5. CASE a \in Members(s, p) /\ b \in Members(s, p)
    <3>1. Len(a) = Len(b)
      BY <1>4, <2>5
    <3> QED
      BY <1>6, <2>1, <3>1, UptoOrder
  <2> QED
    BY <2>2, <2>3, <2>4, <2>5
<1>7. ASSUME NEW a \in M, NEW q \in Above(a) PROVE q = << >> \/ Holds(o, q)
  <2>1. CASE a \in L
    BY <2>1, <1>7 DEF MergedSoFar
  <2>2. CASE a \in Members(s, p)
    <3>1. q \in Above(p) \/ q = p
      BY <1>4, <1>7, <2>2 DEF Above
    <3> QED
      BY <1>1, <1>3, <3>1
  <2> QED
    BY <2>1, <2>2
<1>8. \A r \in JsonPaths : Waiting(M, r) => Waiting(L, r)
  <2> SUFFICES ASSUME NEW r \in JsonPaths, NEW a \in M, a \in Upto(r) PROVE Waiting(L, r)
    BY DEF Waiting
  <2>1. CASE a \in L
    BY <2>1 DEF Waiting
  <2>2. CASE a \in Members(s, p)
    <3>1. p \in Upto(r)
      BY <1>4, <2>2, UptoOrder
    <3> QED
      BY <3>1 DEF Waiting
  <2> QED
    BY <2>1, <2>2
<1>9. ASSUME NEW r \in JsonPaths \ {<< >>}
      PROVE  Agree(d, IF Waiting(M, r) THEN o ELSE Overlay(o, s), r)
  <2>1. CASE Waiting(M, r)
    BY <1>8, <2>1 DEF MergedSoFar
  <2>2. CASE ~Waiting(L, r)
    BY <1>8, <2>2 DEF MergedSoFar
  <2>3. CASE Waiting(L, r) /\ ~Waiting(M, r)
    <3>1. Agree(d, o, r)
      BY <2>3 DEF MergedSoFar
    <3>2. p \in Upto(r) /\ \A c \in Members(s, p) : c \notin Upto(r)
      BY <2>3 DEF Waiting
    <3>3. Agree(Overlay(o, s), o, r)
      <4>1. CASE r = p
        BY <1>1, <1>3, <4>1, Entered
      <4>2. CASE r # p
        BY <1>1, <3>2, <4>2, BesideMembers
      <4> QED
        BY <4>1, <4>2
    <3> QED
      BY <2>3, <3>1, <3>3 DEF Agree
  <2> QED
    BY <2>1, <2>2, <2>3
<1>10. o[<< >>] = Object
  <2>1. << >> \in Upto(p)
    BY <1>1, UptoEnds
  <2> QED
    BY <1>1, <1>3, <2>1, DocumentIs DEF Holds
<1>11. d[<< >>] = o[<< >>]
  BY <1>10 DEF MergedSoFar, Object, Null
<1>12. d[<< >>] = IF o[<< >>] = Null /\ M # Members(s, << >>) THEN Object ELSE o[<< >>]
  BY <1>10, <1>11
<1> HIDE DEF M
<1>13. MergedSoFar(d, o, s, M)
  BY <1>5, <1>6, <1>7, <1>9, <1>12 DEF MergedSoFar
<1> QED
  BY <1>13 DEF M

(* mergeJson assigns the member p, or drops it where no member can be. *)
LEMMA MergeAssigns ==
  ASSUME NEW d, NEW o, NEW s, NEW L, MergedSoFar(d, o, s, L), NEW p \in L,
         ~(Holds(d, p) /\ s[p] = Object)
  PROVE  MergedSoFar(Assign(d, p, s), o, s, L \ {p})
<1> DEFINE M == L \ {p}
           u == Parent(p)
           e == Assign(d, p, s)
<1>1. /\ IsDocument(d) /\ IsDocument(o) /\ IsDocument(s)
      /\ p \in DOMAIN s \ {<< >>} /\ p \in JsonPaths /\ p \in Upto(p)
      /\ \A q \in Above(p) : q = << >> \/ Holds(o, q)
      /\ s[<< >>] = Object
  BY DocumentIs DEF MergedSoFar
<1>2. Agree(d, o, p)
  BY <1>1 DEF MergedSoFar, Waiting
<1>3. ~(Holds(o, p) /\ s[p] = Object)
  BY <1>2 DEF Agree, Holds
<1>4. /\ Above(p) = Upto(u) /\ u \in Above(p) /\ u \in DOMAIN o /\ u \in DOMAIN s /\ s[u] = Object
      /\ u \in JsonPaths /\ u \in Upto(p) /\ p \notin Upto(u)
      /\ u # << >> => o[u] \notin Falsy
  <2>1. /\ Above(p) = Upto(u) /\ u \in Above(p) /\ u \in DOMAIN o /\ u \in DOMAIN s /\ s[u] = Object
        /\ u # << >> => o[u] \notin Falsy
    BY <1>1, OnTheWayTo
  <2>2. u \in JsonPaths
    BY <1>1, <2>1, DocumentIs
  <2> HIDE DEF u
  <2> QED
    BY <2>1, <2>2 DEF Above
<1>5. ~Waiting(L, u)
  <2> SUFFICES ASSUME NEW q \in L, q \in Upto(u) PROVE FALSE
    BY DEF Waiting
  <2>1. q \in Upto(p)
    BY <1>1, <1>4, UptoOrder
  <2> QED
    BY <1>4, <2>1 DEF MergedSoFar
<1>6. u # << >> => u \in DOMAIN d /\ d[u] = o[u]
  <2> SUFFICES ASSUME u # << >> PROVE u \in DOMAIN d /\ d[u] = o[u]
    OBVIOUS
  <2>1. Agree(d, Overlay(o, s), u)
    BY <1>4, <1>5 DEF MergedSoFar
  <2>2. \A q \in Above(u) : q \in Above(p)
    BY <1>1, <1>4 DEF Above
  <2>3. Holds(o, u)
    BY <1>4 DEF Holds
  <2>4. Agree(Overlay(o, s), o, u)
    BY <1>1, <1>4, <2>2, <2>3, Entered
  <2> QED
    BY <1>4, <2>1, <2>4 DEF Agree
<1>7. << >> \in DOMAIN d /\ << >> \in DOMAIN o
  BY <1>1, DocumentIs
<1>8. d[<< >>] \in {Object, o[<< >>]} /\ (o[<< >>] # Null => d[<< >>] = o[<< >>])
  BY DEF MergedSoFar
<1>9. u # << >> => o[<< >>] = Object /\ d[<< >>] = Object
  <2> SUFFICES ASSUME u # << >> PROVE o[<< >>] = Object
    BY <1>8 DEF Object, Null
  <2>1. << >> \in Upto(u)
    BY <1>4, UptoEnds
  <2> QED
    BY <1>1, <1>4, <2>1, DocumentIs
<1>10. M \subseteq DOMAIN s \ {<< >>} /\ (\A a, b \in M : a \in Upto(b) => a = b)
       /\ (\A a \in M : \A q \in Above(a) : q = << >> \/ Holds(o, q))
  BY DEF MergedSoFar
<1>11. \A r \in JsonPaths : p \in Upto(r) => Waiting(L, r) /\ ~Waiting(M, r)
  <2> SUFFICES ASSUME NEW r \in JsonPaths, p \in Upto(r), NEW q \in M, q \in Upto(r) PROVE FALSE
    BY DEF Waiting
  <2>1. q \in Upto(p) \/ p \in Upto(q)
    BY UptoOrder
  <2> QED
    BY <2>1 DEF MergedSoFar
<1>12. \A r : p \notin Upto(r) => (Waiting(L, r) <=> Waiting(M, r))
  BY DEF Waiting
<1>13. M # Members(s, << >>) \/ u # << >>
  BY <1>1 DEF Members
<1>14. CASE o[u] \in {Object, Null}
  <2>1. u \in DOMAIN d /\ d[u] \in {Object, Null}
    BY <1>6, <1>7, <1>8, <1>14
  <2>2. /\ IsDocument(e)
        /\ \A r : p \in Upto(r) => Agree(e, s, r)
        /\ \A r : p \notin Upto(r) /\ r # u => Agree(e, d, r)
        /\ e[u] = Object
    BY <1>1, <2>1, AssignAt
  <2> HIDE DEF e
  <2>3. u # << >> => Agree(e, d, u)
    <3> SUFFICES ASSUME u # << >> PROVE Agree(e, d, u)
      OBVIOUS
    <3>1. d[u] = Object
      BY <1>4, <1>6, <1>14 DEF Falsy
    <3>2. u \in DOMAIN e
      <4>1. p \in DOMAIN e
        BY <1>1, <2>2 DEF Agree
      <4> QED
        BY <1>4, <2>2, <4>1, DocumentIs DEF Above
    <3> QED
      BY <2>1, <2>2, <3>1, <3>2 DEF Agree
  <2>4. ASSUME NEW r \in JsonPaths \ {<< >>}
        PROVE  Agree(e, IF Waiting(M, r) THEN o ELSE Overlay(o, s), r)
    <3>1. CASE p \in Upto(r)
      <4>1. Agree(Overlay(o, s), s, r)
        BY <1>1, <1>3, <1>14, <3>1, TakenWhole
      <4>2. Agree(e, s, r)
        BY <2>2, <3>1
      <4> QED
        BY <1>11, <3>1, <4>1, <4>2 DEF Agree
    <3>2. CASE p \notin Upto(r)
      <4>1. Agree(e, d, r)
        BY <2>2, <2>3, <3>2
      <4>2. Agree(d, IF Waiting(M, r) THEN o ELSE Overlay(o, s), r)
        BY <1>12, <3>2 DEF MergedSoFar
      <4> QED
        BY <4>1, <4>2 DEF Agree
    <3> QED
      BY <3>1, <3>2
  <2>5. e[<< >>] = IF o[<< >>] = Null /\ M # Members(s, << >>) THEN Object ELSE o[<< >>]
    <3>1. CASE u = << >>
      BY <1>13, <1>14, <2>2, <3>1
    <3>2. CASE u # << >>
      <4>1. p \notin Upto(<< >>)
        BY <1>1, TheRoot
      <4>2. Agree(e, d, << >>)
        BY <2>2, <3>2, <4>1
      <4> QED
        BY <1>7, <1>9, <3>2, <4>2 DEF Agree, Object, Null
    <3> QED
      BY <3>1, <3>2
  <2> HIDE DEF M
  <2>6. MergedSoFar(e, o, s, M)
    BY <1>10, <2>2, <2>4, <2>5 DEF MergedSoFar
  <2> QED
    BY <2>6 DEF e, M
<1>15. CASE o[u] \notin {Object, Null}
  <2>1. o[<< >>] # Null /\ d[u] = o[u]
    BY <1>6, <1>8, <1>9, <1>15 DEF Object, Null
  <2>2. e = d
    BY <1>15, <2>1 DEF Assign
  <2> HIDE DEF e
  <2>3. ASSUME NEW r \in JsonPaths \ {<< >>}
        PROVE  Agree(d, IF Waiting(M, r) THEN o ELSE Overlay(o, s), r)
    <3>1. CASE p \in Upto(r)
      <4>1. Agree(Overlay(o, s), o, r)
        BY <1>1, <1>15, <3>1, KeptWhole
      <4>2. Agree(d, o, r)
        BY <1>11, <3>1 DEF MergedSoFar
      <4> QED
        BY <1>11, <3>1, <4>1, <4>2 DEF Agree
    <3>2. CASE p \notin Upto(r)
      BY <1>12, <3>2 DEF MergedSoFar
    <3> QED
      BY <3>1, <3>2
  <2>4. d[<< >>] = IF o[<< >>] = Null /\ M # Members(s, << >>) THEN Object ELSE o[<< >>]
    BY <1>8, <2>1
  <2> HIDE DEF M
  <2>5. MergedSoFar(d, o, s, M)
    BY <1>10, <2>3, <2>4 DEF MergedSoFar
  <2> QED
    BY <2>2, <2>5 DEF e, M
<1> QED
  BY <1>14, <1>15

-----------------------------------------------------------------------------
(* ConfigInv is inductive: between two merges the content is what it should  *)
(* be, and in the middle of one it is merged so far.                         *)
ConfigInv ==
  /\ IsDocument(file) /\ IsDocument(jsFileContent) /\ IsDocument(src) /\ IsDocument(merged)
  /\ IF left = {} THEN jsFileContent = merged
     ELSE merged # NotLoaded /\ MergedSoFar(jsFileContent, merged, src, left)

LEMMA NotLoadedIs == IsDocument(NotLoaded)
<1>1. DOMAIN NotLoaded = {<< >>} /\ NotLoaded = [p \in DOMAIN NotLoaded |-> NotLoaded[p]]
  BY DEF NotLoaded, Leaf
<1>2. DOMAIN NotLoaded \subseteq Seq(STRING)
  BY <1>1, TheRoot DEF JsonPaths
<1> QED
  BY <1>1, <1>2, TheRoot DEF IsDocument

(* In the middle of a merge the content cannot look as if nothing was read. *)
LEMMA StaysLoaded ==
  ASSUME NEW o, NEW s, NEW L, MergedSoFar(NotLoaded, o, s, L)
  PROVE  o = NotLoaded
<1>1. NotLoaded[<< >>] = "not loaded" /\ DOMAIN NotLoaded = {<< >>}
  BY DEF NotLoaded, Leaf
<1>2. o[<< >>] = "not loaded" /\ IsDocument(o)
  BY <1>1 DEF MergedSoFar, Object
<1>3. \A r \in DOMAIN o : r = << >>
  <2> SUFFICES ASSUME NEW r \in DOMAIN o, r # << >> PROVE FALSE
    OBVIOUS
  <2>1. << >> \in Upto(r)
    BY <1>2, DocumentIs, UptoEnds
  <2>2. o[<< >>] = Object
    BY <1>2, <2>1, DocumentIs
  <2> QED
    BY <1>2, <2>2 DEF Object
<1>4. DOMAIN o = {<< >>}
  <2>1. << >> \in DOMAIN o
    BY <1>2, DocumentIs
  <2> QED
    BY <1>3, <2>1
<1>5. \A r \in JsonPaths : Agree(o, NotLoaded, r)
  BY <1>1, <1>2, <1>4 DEF Agree
<1>6. NotLoaded = [p \in DOMAIN NotLoaded |-> NotLoaded[p]] /\ DOMAIN NotLoaded \subseteq JsonPaths
  BY NotLoadedIs DEF IsDocument, JsonPaths
<1> QED
  BY <1>2, <1>5, <1>6, DocumentsEqual

(* Every call that is over leaves a document that is merged so far. *)
LEMMA GoOnKeeps ==
  ASSUME ConfigInv, NEW update, NEW rest, GoOn(update, rest), UNCHANGED file,
         merged # NotLoaded, MergedSoFar(jsFileContent', merged, update, rest)
  PROVE  ConfigInv'
<1>1. IsDocument(update) /\ IsDocument(jsFileContent') /\ IsDocument(NotLoaded)
  BY NotLoadedIs DEF MergedSoFar
<1>2. CASE rest = {}
  <2>1. jsFileContent' = Overlay(merged, update)
    BY <1>2, MergeEnds
  <2> QED
    BY <1>1, <1>2, <2>1 DEF GoOn, ConfigInv
<1>3. CASE rest # {}
  BY <1>1, <1>3 DEF GoOn, ConfigInv
<1> QED
  BY <1>2, <1>3

(* MergesOverlay: whatever the file contains and whichever updates are       *)
(* merged into it, mergeJson makes of the content the overlay of the two.    *)
THEOREM UpdatesOverlay == ConfigSpec => []MergesOverlay
<1>1. ConfigInit => ConfigInv
  BY NotLoadedIs, ConfigAssumption DEF ConfigInit, ConfigInv
<1>2. ConfigInv /\ [ConfigNext]_configVars => ConfigInv'
  <2> SUFFICES ASSUME ConfigInv, [ConfigNext]_configVars PROVE ConfigInv'
    OBVIOUS
  <2>1. CASE ConfigContent
    <3>1. left = {}
      <4> SUFFICES ASSUME left # {} PROVE FALSE
        OBVIOUS
      <4>1. MergedSoFar(NotLoaded, merged, src, left) /\ merged # NotLoaded
        BY <2>1 DEF ConfigContent, ConfigInv
      <4> QED
        BY <4>1, StaysLoaded
    <3> QED
      BY <2>1, <3>1 DEF ConfigContent, ConfigInv
  <2>2. CASE Rewrite
    BY <2>2, ConfigAssumption DEF Rewrite, ConfigInv
  <2>3. CASE Restart
    BY <2>3, NotLoadedIs DEF Restart, ConfigInv
  <2>4. ASSUME NEW update \in Updates, Merge(update) PROVE ConfigInv'
    <3>1. IsDocument(update) /\ left = {} /\ jsFileContent = merged /\ merged # NotLoaded
         /\ UNCHANGED file
      BY <2>4, ConfigAssumption DEF Merge, ConfigInv
    <3>2. CASE update[<< >>] # Object
      <4>1. Overlay(merged, update) = update
        BY <3>1, <3>2, Replaced DEF ConfigInv
      <4> QED
        BY <2>4, <3>1, <3>2, <4>1, NotLoadedIs DEF Merge, GoOn, ConfigInv
    <3>3. CASE update[<< >>] = Object /\ Members(update, << >>) = {}
      <4>1. Overlay(merged, update) = merged
        BY <3>1, <3>3, NothingToMerge DEF ConfigInv
      <4> QED
        BY <2>4, <3>1, <3>3, <4>1, NotLoadedIs DEF Merge, GoOn, ConfigInv
    <3>4. CASE update[<< >>] = Object /\ Members(update, << >>) # {}
      <4>1. MergedSoFar(merged, merged, update, Members(update, << >>))
        BY <3>1, <3>4, MergeStarts DEF ConfigInv
      <4> QED
        BY <2>4, <3>1, <3>4, <4>1, GoOnKeeps DEF Merge
    <3> QED
      BY <3>2, <3>3, <3>4
  <2>5. ASSUME NEW p \in left, MergeMember(p) PROVE ConfigInv'
    <3>1. MergedSoFar(jsFileContent, merged, src, left) /\ merged # NotLoaded /\ UNCHANGED file
      BY <2>5 DEF MergeMember, ConfigInv
    <3>2. CASE Holds(jsFileContent, p) /\ src[p] = Object
      <4>1. MergedSoFar(jsFileContent, merged, src, (left \ {p}) \cup Members(src, p))
        BY <3>1, <3>2, MergeDescends
      <4> QED
        BY <2>5, <3>1, <3>2, <4>1, GoOnKeeps DEF MergeMember
    <3>3. CASE ~(Holds(jsFileContent, p) /\ src[p] = Object)
      <4>1. MergedSoFar(Assign(jsFileContent, p, src), merged, src, left \ {p})
        BY <3>1, <3>3, MergeAssigns
      <4> QED
        BY <2>5, <3>1, <3>3, <4>1, GoOnKeeps DEF MergeMember
    <3> QED
      BY <3>2, <3>3
  <2>6. CASE UNCHANGED configVars
    BY <2>6 DEF configVars, ConfigInv
  <2> QED
    BY <2>1, <2>2, <2>3, <2>4, <2>5, <2>6 DEF ConfigNext
<1>3. ConfigInv => MergesOverlay
  BY DEF ConfigInv, MergesOverlay
<1> QED
  BY <1>1, <1>2, <1>3, PTL DEF ConfigSpec
=============================================================================

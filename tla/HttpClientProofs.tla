--------------------------- MODULE HttpClientProofs ---------------------------
(***************************************************************************)
(* CurlHttp and HttpClient proved for any number of CurlHttps and clients  *)
(* and bodies of any size.  Of CurlHttp: the global count is exact,        *)
(* initialization and cleanup alternate, and nothing that may call curl    *)
(* outlives the library.  Of HttpClient: the requests leave that life      *)
(* cycle as it is, every failure is reported, and an easy handle is only   *)
(* used while curl is initialized.                                         *)
(*                                                                         *)
(* CountIsExact alone is not inductive: whether a CurlHttp stops being a   *)
(* user depends on refs, so refs has to be the number of its owners.       *)
(***************************************************************************)
EXTENDS HttpClient, SequenceTheorems, FiniteSetTheorems, TLAPS

Live == {"idle", "sending"}

\* The clients that hold a reference to h, and the reference of h itself.
ClientsOf(h) == {c \in Clients : client[c] \in Live /\ source[c] = h}
Own(h) == IF http[h] = "alive" THEN 1 ELSE 0

RefsAreExact == \A h \in Https : refs[h] = Cardinality(ClientsOf(h)) + Own(h)

\* A CurlHttp gets clients after it was created and is unloaded after it lost
\* all of them.
InOrder ==
    /\ \A c \in Clients : client[c] \in Live => source[c] \in Https
    /\ \A h \in Https :
         /\ http[h] \in {"none", "failed", "loaded"} => ClientsOf(h) = {}
         /\ h \in unloading => http[h] = "deleted" /\ ClientsOf(h) = {}

IInv == TypeOK /\ InOrder /\ RefsAreExact /\ CountIsExact /\ InitsAlternate

-----------------------------------------------------------------------------
\* The sets that are counted are finite.
LEMMA FiniteCounts ==
  /\ IsFiniteSet(Users) /\ Cardinality(Users) \in Nat
  /\ \A h \in Https : IsFiniteSet(ClientsOf(h)) /\ Cardinality(ClientsOf(h)) \in Nat
<1>1. IsFiniteSet(Users)
  BY CurlHttpAssumption, FS_Subset DEF Users
<1>2. ASSUME NEW h \in Https PROVE IsFiniteSet(ClientsOf(h))
  <2>1. ClientsOf(h) \in SUBSET Clients  BY DEF ClientsOf
  <2>. QED  BY <2>1, CurlHttpAssumption, FS_Subset
<1>. QED  BY <1>1, <1>2, FS_CardinalityType

\* Nothing exists and nothing is counted at first.
LEMMA InitInv == Init => IInv
<1> SUFFICES ASSUME Init PROVE IInv
  OBVIOUS
<1>1. TypeOK
  BY CurlHttpAssumption DEF Init, TypeOK
<1>2. \A h \in Https : ClientsOf(h) = {} /\ Own(h) = 0
  BY DEF Init, ClientsOf, Live, Own
<1>3. Users = {}
  BY DEF Init, Users
<1>4. InOrder
  BY <1>2 DEF Init, InOrder, Live
<1>5. RefsAreExact
  BY <1>2, FS_EmptySet DEF Init, RefsAreExact
<1>6. CountIsExact /\ InitsAlternate
  BY <1>3, FS_EmptySet DEF Init, CountIsExact, InitsAlternate
<1>. QED  BY <1>1, <1>4, <1>5, <1>6 DEF IInv

\* A step that changes neither the count nor the set of users.
LEMMA UsersUnchanged ==
  ASSUME CountIsExact, InitsAlternate, Users' = Users, UNCHANGED libVars
  PROVE  CountIsExact' /\ InitsAlternate'
BY DEF CountIsExact, InitsAlternate, libVars

\* The library gets a new user, or curl_global_init failed and nothing is counted.
LEMMA LoadLibraryInv ==
  ASSUME IInv, NEW h \in Https, LoadLibrary(h)
  PROVE  IInv'
<1> USE DEF IInv
<1>1. TypeOK'
  BY DEF TypeOK, LoadLibrary, NotCounted, libVars
<1>2. \A g \in Https : ClientsOf(g)' = ClientsOf(g) /\ Own(g)' = Own(g)
  BY DEF LoadLibrary, ClientsOf, Own, TypeOK
<1>3. RefsAreExact'
  BY <1>2 DEF RefsAreExact, LoadLibrary
<1>4. InOrder'
  BY <1>2 DEF InOrder, LoadLibrary, TypeOK, Live
<1>5. h \notin Users
  <2>1. ClientsOf(h) = {} /\ Own(h) = 0 /\ h \notin unloading
    BY DEF InOrder, LoadLibrary, Own
  <2>2. refs[h] = 0
    BY <2>1, FS_EmptySet DEF RefsAreExact
  <2>. QED  BY <2>1, <2>2 DEF Users, LoadLibrary
<1>6. CASE NotCounted /\ http' = [http EXCEPT ![h] = "failed"]
  <2>1. Users' = Users
    BY <1>6 DEF Users, LoadLibrary, TypeOK
  <2>. QED  BY <1>1, <1>3, <1>4, <1>6, <2>1, UsersUnchanged DEF NotCounted
<1>7. CASE /\ inits' = IF refCount = 0 THEN inits + 1 ELSE inits
           /\ refCount' = refCount + 1
           /\ http' = [http EXCEPT ![h] = "loaded"]
  <2>1. Users' = Users \cup {h}
    BY <1>7 DEF Users, LoadLibrary, TypeOK
  <2>2. Cardinality(Users') = Cardinality(Users) + 1
    BY <1>5, <2>1, FiniteCounts, FS_AddElement
  <2>3. CountIsExact'
    BY <1>7, <2>2 DEF CountIsExact
  <2>4. InitsAlternate'
    BY <1>7 DEF InitsAlternate, TypeOK
  <2>. QED  BY <1>1, <1>3, <1>4, <2>3, <2>4
<1>. QED  BY <1>6, <1>7 DEF LoadLibrary

\* The CurlHttp stays a user, now for its reference.
LEMMA ConstructInv ==
  ASSUME IInv, NEW h \in Https, Construct(h)
  PROVE  IInv'
<1> USE DEF IInv
<1>1. TypeOK'
  BY DEF TypeOK, Construct, libVars
<1>2. \A g \in Https : ClientsOf(g)' = ClientsOf(g)
  BY DEF Construct, ClientsOf
<1>3. InOrder'
  BY <1>2 DEF InOrder, Construct, TypeOK, Live
<1>4. refs'[h] = Cardinality(ClientsOf(h)') + Own(h)'
  <2>1. ClientsOf(h)' = {} /\ Own(h)' = 1 /\ refs'[h] = 1
    BY <1>2 DEF InOrder, Construct, Own, TypeOK
  <2>. QED  BY <2>1, FS_EmptySet
<1>5. \A g \in Https \ {h} : refs'[g] = refs[g] /\ Own(g)' = Own(g)
  BY DEF Construct, Own, TypeOK
<1>6. RefsAreExact'
  BY <1>2, <1>4, <1>5 DEF RefsAreExact
<1>7. Users' = Users
  BY <1>5 DEF Users, Construct, TypeOK
<1>. QED  BY <1>1, <1>3, <1>6, <1>7, UsersUnchanged DEF Construct

\* One owner more.
LEMMA CreateClientInv ==
  ASSUME IInv, NEW h \in Https, NEW c \in Clients, CreateClient(h, c)
  PROVE  IInv'
<1> USE DEF IInv
<1>1. TypeOK'
  BY DEF TypeOK, CreateClient, Copied, libVars
<1>2. ClientsOf(h)' = ClientsOf(h) \cup {c} /\ c \notin ClientsOf(h)
  BY DEF CreateClient, ClientsOf, Live, TypeOK
<1>3. \A g \in Https \ {h} : ClientsOf(g)' = ClientsOf(g) /\ refs'[g] = refs[g]
  BY DEF CreateClient, ClientsOf, Live, TypeOK
<1>4. http' = http /\ unloading' = unloading /\ http[h] = "alive"
  BY DEF CreateClient
<1>5. InOrder'
  <2>1. \A d \in Clients : client'[d] \in Live => source'[d] \in Https
    BY DEF CreateClient, InOrder, TypeOK
  <2>. QED  BY <2>1, <1>3, <1>4 DEF InOrder
<1>6. refs'[h] = refs[h] + 1
  BY DEF CreateClient, Copied, TypeOK
<1>7. RefsAreExact'
  <2>1. Cardinality(ClientsOf(h)') = Cardinality(ClientsOf(h)) + 1
    BY <1>2, FiniteCounts, FS_AddElement
  <2>2. \A g \in Https : Own(g)' = Own(g) /\ Own(g) \in Nat
    BY <1>4 DEF Own
  <2>. QED  BY <1>3, <1>6, <2>1, <2>2, FiniteCounts DEF RefsAreExact
<1>8. Users' = Users
  <2>1. refs[h] > 0
    BY <1>4, FiniteCounts DEF RefsAreExact, Own
  <2>2. \A g \in Https : refs'[g] > 0 <=> refs[g] > 0
    BY <1>3, <1>6, <2>1 DEF TypeOK
  <2>. QED  BY <1>4, <2>2 DEF Users
<1>. QED  BY <1>1, <1>5, <1>7, <1>8, UsersUnchanged DEF CreateClient

\* A client that sends is as much an owner as one that does not.
LEMMA RequestInv ==
  ASSUME IInv, NEW c \in Clients, BeginRequest(c) \/ EndRequest(c)
  PROVE  IInv'
<1> USE DEF IInv
<1>1. TypeOK'
  BY DEF TypeOK, BeginRequest, EndRequest, libVars
<1>2. UNCHANGED <<libVars, http, source, refs, unloading>>
  BY DEF BeginRequest, EndRequest
<1>3. \A d \in Clients : client'[d] \in Live <=> client[d] \in Live
  BY DEF BeginRequest, EndRequest, Live, TypeOK
<1>4. \A h \in Https : ClientsOf(h)' = ClientsOf(h) /\ Own(h)' = Own(h)
  BY <1>2, <1>3 DEF ClientsOf, Own
<1>5. InOrder' /\ RefsAreExact'
  BY <1>2, <1>3, <1>4 DEF InOrder, RefsAreExact
<1>6. Users' = Users
  BY <1>2 DEF Users
<1>. QED  BY <1>1, <1>2, <1>5, <1>6, UsersUnchanged

\* Who gives up the last reference leaves the CurlHttp in unloading, so that it is
\* a user until UnloadLibrary.
LEMMA DownKeepsUsers ==
  ASSUME TypeOK, NEW h \in Https, refs[h] > 0, Down(h),
         http[h] # "loaded", http'[h] # "loaded",
         \A g \in Https \ {h} : http'[g] = http[g]
  PROVE  Users' = Users
BY DEF Users, Down, TypeOK

LEMMA DeleteHttpInv ==
  ASSUME IInv, NEW h \in Https, DeleteHttp(h)
  PROVE  IInv'
<1> USE DEF IInv
<1>1. refs[h] = Cardinality(ClientsOf(h)) + 1 /\ refs[h] > 0
  BY FiniteCounts DEF RefsAreExact, DeleteHttp, Own
<1>2. TypeOK'
  BY <1>1 DEF TypeOK, DeleteHttp, Down, libVars
<1>3. \A g \in Https : ClientsOf(g)' = ClientsOf(g)
  BY DEF DeleteHttp, ClientsOf
<1>4. \A g \in Https \ {h} : Own(g)' = Own(g) /\ refs'[g] = refs[g] /\ http'[g] = http[g]
  BY DEF DeleteHttp, Down, Own, TypeOK
<1>5. refs'[h] = refs[h] - 1 /\ Own(h)' = 0 /\ http'[h] = "deleted"
  BY DEF DeleteHttp, Down, Own, TypeOK
<1>6. RefsAreExact'
  BY <1>1, <1>3, <1>4, <1>5, FiniteCounts DEF RefsAreExact
<1>7. h \in unloading' => ClientsOf(h)' = {}
  <2>1. h \notin unloading
    BY DEF InOrder, DeleteHttp
  <2>2. h \in unloading' => refs[h] = 1
    BY <2>1 DEF DeleteHttp, Down
  <2>. QED  BY <1>1, <1>3, <2>2, FiniteCounts, FS_EmptySet
<1>8. InOrder'
  <2>1. unloading' \subseteq unloading \cup {h}
    BY DEF DeleteHttp, Down
  <2>2. client' = client /\ source' = source
    BY DEF DeleteHttp
  <2>. QED  BY <1>3, <1>4, <1>5, <1>7, <2>1, <2>2 DEF InOrder
<1>9. Users' = Users
  BY <1>1, <1>4, <1>5, DownKeepsUsers DEF DeleteHttp
<1>. QED  BY <1>2, <1>6, <1>8, <1>9, UsersUnchanged DEF DeleteHttp

LEMMA DeleteClientInv ==
  ASSUME IInv, NEW c \in Clients, DeleteClient(c)
  PROVE  IInv'
<1> USE DEF IInv
<1>0. PICK h \in Https : source[c] = h /\ c \in ClientsOf(h)
  BY DEF InOrder, DeleteClient, Live, ClientsOf
<1>1. refs[h] = Cardinality(ClientsOf(h)) + Own(h) /\ ClientsOf(h) # {}
  BY <1>0 DEF RefsAreExact
<1>2. Cardinality(ClientsOf(h)) > 0 /\ Own(h) \in Nat /\ refs[h] > 0
  <2>1. Cardinality(ClientsOf(h)) # 0
    BY <1>0, FiniteCounts, FS_EmptySet
  <2>. QED  BY <1>0, <1>1, <2>1, FiniteCounts DEF Own
<1>3. TypeOK'
  BY <1>0, <1>2 DEF TypeOK, DeleteClient, Down, libVars
<1>4. ClientsOf(h)' = ClientsOf(h) \ {c}
  BY <1>0 DEF DeleteClient, ClientsOf, Live, TypeOK
<1>5. Cardinality(ClientsOf(h)') = Cardinality(ClientsOf(h)) - 1
  BY <1>0, <1>4, FiniteCounts, FS_RemoveElement
<1>6. \A g \in Https \ {h} : ClientsOf(g)' = ClientsOf(g) /\ refs'[g] = refs[g]
  BY <1>0 DEF DeleteClient, Down, ClientsOf, Live, TypeOK
<1>7. refs'[h] = refs[h] - 1 /\ http' = http
  BY <1>0 DEF DeleteClient, Down, TypeOK
<1>8. RefsAreExact'
  <2>1. \A g \in Https : Own(g)' = Own(g)
    BY <1>7 DEF Own
  <2>. QED  BY <1>0, <1>1, <1>2, <1>5, <1>6, <1>7, <2>1, FiniteCounts DEF RefsAreExact
<1>9. http[h] \in {"alive", "deleted"}
  BY <1>0, <1>1 DEF InOrder, TypeOK
<1>10. h \in unloading' => http[h] = "deleted" /\ ClientsOf(h)' = {}
  <2>1. h \notin unloading
    BY <1>0, <1>1 DEF InOrder
  <2>2. h \in unloading' => refs[h] = 1
    BY <2>1 DEF DeleteClient, Down
  <2>3. refs[h] = 1 => Own(h) = 0 /\ Cardinality(ClientsOf(h)') = 0
    BY <1>0, <1>1, <1>2, <1>5, FiniteCounts
  <2>4. IsFiniteSet(ClientsOf(h)')
    BY <1>0, <1>4, FiniteCounts, FS_RemoveElement
  <2>. QED  BY <1>9, <2>2, <2>3, <2>4, FS_EmptySet DEF Own
<1>11. InOrder'
  <2>1. unloading' \subseteq unloading \cup {h}
    BY <1>0 DEF DeleteClient, Down
  <2>2. \A d \in Clients : client'[d] \in Live => source'[d] \in Https
    BY DEF DeleteClient, InOrder, Live, TypeOK
  <2>. QED  BY <1>6, <1>7, <1>9, <1>10, <2>1, <2>2 DEF InOrder
<1>12. Users' = Users
  BY <1>0, <1>2, <1>7, <1>9, DownKeepsUsers DEF DeleteClient
<1>. QED  BY <1>3, <1>8, <1>11, <1>12, UsersUnchanged DEF DeleteClient

\* The library loses a user; the last one cleans curl up.
LEMMA UnloadLibraryInv ==
  ASSUME IInv, NEW h \in Https, UnloadLibrary(h)
  PROVE  IInv'
<1> USE DEF IInv
<1>1. \A g \in Https : ClientsOf(g)' = ClientsOf(g) /\ Own(g)' = Own(g)
  BY DEF UnloadLibrary, ClientsOf, Own
<1>2. RefsAreExact'
  BY <1>1 DEF RefsAreExact, UnloadLibrary
<1>3. InOrder'
  BY <1>1 DEF InOrder, UnloadLibrary
<1>4. h \in Users /\ Users' = Users \ {h}
  <2>1. http[h] = "deleted" /\ ClientsOf(h) = {}
    BY DEF InOrder, UnloadLibrary
  <2>2. refs[h] = 0
    BY <2>1, FS_EmptySet DEF RefsAreExact, Own
  <2>. QED  BY <2>1, <2>2 DEF Users, UnloadLibrary
<1>5. Cardinality(Users') = Cardinality(Users) - 1
  BY <1>4, FiniteCounts, FS_RemoveElement
<1>6. CountIsExact'
  BY <1>5 DEF CountIsExact, UnloadLibrary
<1>7. refCount > 0
  BY <1>4, FiniteCounts, FS_EmptySet DEF CountIsExact
<1>8. InitsAlternate'
  BY <1>7 DEF InitsAlternate, UnloadLibrary, LastUser, TypeOK
<1>9. TypeOK'
  BY <1>7 DEF TypeOK, UnloadLibrary, LastUser, InitsAlternate
<1>. QED  BY <1>2, <1>3, <1>6, <1>8, <1>9

LEMMA Inductive == IInv /\ [Next]_vars => IInv'
<1> SUFFICES ASSUME IInv, [Next]_vars PROVE IInv'
  OBVIOUS
<1>1. CASE UNCHANGED vars
  BY <1>1 DEF vars, libVars, IInv, TypeOK, InOrder, RefsAreExact, CountIsExact,
              InitsAlternate, ClientsOf, Own, Users
<1>2. ASSUME NEW h \in Https,
             \/ LoadLibrary(h) \/ Construct(h) \/ DeleteHttp(h) \/ UnloadLibrary(h)
             \/ \E c \in Clients : CreateClient(h, c)
      PROVE  IInv'
  BY <1>2, LoadLibraryInv, ConstructInv, DeleteHttpInv, UnloadLibraryInv, CreateClientInv
<1>3. ASSUME NEW c \in Clients, BeginRequest(c) \/ EndRequest(c) \/ DeleteClient(c)
      PROVE  IInv'
  BY <1>3, RequestInv, DeleteClientInv
<1>. QED  BY <1>1, <1>2, <1>3 DEF Next, Finished

-----------------------------------------------------------------------------
\* The global count is the number of CurlHttps of which something is left, however
\* many there are (curl_http.cc:42-63).
THEOREM CountStaysExact == Spec => []CountIsExact
<1>1. IInv => CountIsExact  BY DEF IInv
<1>. QED  BY InitInv, Inductive, <1>1, PTL DEF Spec

\* curl_global_init and curl_global_cleanup alternate.
THEOREM InitsStayAlternate == Spec => []InitsAlternate
<1>1. IInv => InitsAlternate  BY DEF IInv
<1>. QED  BY InitInv, Inductive, <1>1, PTL DEF Spec

\* While a CurlHttp or a client exists, curl is initialized.
LEMMA LibraryIsThere == IInv => LibraryOutlivesUsers
<1> SUFFICES ASSUME IInv PROVE LibraryOutlivesUsers
  OBVIOUS
<1> USE DEF IInv
<1>1. ASSUME NEW h \in Users PROVE inits > 0
  BY <1>1, FiniteCounts, FS_EmptySet DEF CountIsExact, InitsAlternate
<1>2. ASSUME NEW h \in Https, http[h] \in {"loaded", "alive"} PROVE inits > 0
  <2>1. http[h] = "alive" => refs[h] > 0
    BY FiniteCounts DEF RefsAreExact, Own
  <2>. QED  BY <1>1, <1>2, <2>1 DEF Users
<1>3. ASSUME NEW c \in Clients, client[c] \in Live PROVE inits > 0
  <2>1. source[c] \in Https /\ ClientsOf(source[c]) # {}
    BY <1>3 DEF InOrder, ClientsOf
  <2>2. Cardinality(ClientsOf(source[c])) > 0
    BY <2>1, FiniteCounts, FS_EmptySet
  <2>3. refs[source[c]] > 0
    BY <2>1, <2>2, FiniteCounts DEF RefsAreExact, Own
  <2>. QED  BY <1>1, <2>1, <2>3 DEF Users
<1>. QED  BY <1>2, <1>3 DEF LibraryOutlivesUsers, Live

\* Nothing that may call curl outlives the library, in whatever order CurlHttps
\* and clients are deleted.
THEOREM LibraryStays == Spec => []LibraryOutlivesUsers
<1>. QED  BY InitInv, Inductive, LibraryIsThere, PTL DEF Spec

\* The variables keep their types.
THEOREM TypeCorrect == Spec => []TypeOK
<1>1. IInv => TypeOK  BY DEF IInv
<1>. QED  BY InitInv, Inductive, <1>1, PTL DEF Spec
-----------------------------------------------------------------------------
(***************************************************************************)
(* HttpClient: what SendRequest adds to the life cycle.                    *)
(***************************************************************************)

\* The client that sends is kept by its caller.
SenderIsAlive ==
    /\ sender = None <=> at = "idle"
    /\ sender # None => sender \in Clients /\ client[sender] = "sending"

\* The handle is open only in the middle of SendRequest, which goes on only as long
\* as nothing has failed.
HandleIsLocal ==
    /\ at \in {"idle", "init", "setopt", "perform", "done"}
    /\ handle = "open" => at \in {"setopt", "perform"}
    /\ at \in {"init", "setopt", "perform"} => failed = "none"

HInv == SenderIsAlive /\ HandleIsLocal /\ FailureIsReported

-----------------------------------------------------------------------------
\* A step of HttpClient is a step of CurlHttp or leaves its variables alone.
LEMMA StepSimulates == [HttpNext]_httpVars => [Next]_vars
<1> SUFFICES ASSUME [HttpNext]_httpVars PROVE [Next]_vars
  OBVIOUS
<1>1. CASE UNCHANGED httpVars
  BY <1>1 DEF httpVars
<1>2. CASE BuildRequest \/ Transfer
  BY <1>2 DEF BuildRequest, Transfer
<1>3. ASSUME NEW c \in Clients, Returned(c) \/ \E out \in BOOLEAN : SendRequest(c, out)
      PROVE  Next
  BY <1>3 DEF Next, Returned, SendRequest
<1>4. CASE Others
  BY <1>4 DEF Next, Others
<1>. QED  BY <1>1, <1>2, <1>3, <1>4 DEF HttpNext

\* Whatever the requests do, the library is used as CurlHttp says.
THEOREM RequestsKeepTheLifeCycle == HttpSpec => Spec
<1>1. HttpInit => Init  BY DEF HttpInit
<1>. QED  BY <1>1, StepSimulates, PTL DEF HttpSpec, Spec

-----------------------------------------------------------------------------
LEMMA HttpInitInv == HttpInit => HInv
BY DEF HttpInit, HInv, SenderIsAlive, HandleIsLocal, FailureIsReported,
       R!Init, R!FailureIsReported

\* SendRequest returns, with a response or with NULL and the failure.
LEMMA ReturnInv ==
  ASSUME HandleIsLocal, at \in {"init", "setopt", "perform"}, statusOut' = statusOut,
         NEW answer \in R!Answers \cup {"no handle"}, R!Record(answer),
         \/ answer # R!Ok /\ R!Fail(answer)
         \/ answer = R!Ok /\ R!Return("response", R!Ok)
  PROVE  HandleIsLocal' /\ FailureIsReported' /\ at' # "idle"
<1>1. answer # R!Ok => answer # "none"
  BY HttpClientAssumption DEF R!Answers, R!Ok
<1>2. failed' = IF answer = R!Ok THEN "none" ELSE answer
  BY DEF HandleIsLocal, R!Record
<1>. QED  BY <1>1, <1>2 DEF HandleIsLocal, FailureIsReported, R!FailureIsReported, R!Return,
                            R!Fail, R!MaybeAssign

\* SendRequest goes on after an answer that was no failure.
LEMMA GoOnInv ==
  ASSUME HandleIsLocal, at \in {"init", "setopt", "perform"},
         at' \in {"setopt", "perform"}, failed' = failed
  PROVE  HandleIsLocal' /\ FailureIsReported' /\ at' # "idle"
BY DEF HandleIsLocal, FailureIsReported, R!FailureIsReported

\* The steps inside SendRequest.
LEMMA TransferInv ==
  ASSUME HInv, Transfer
  PROVE  HInv'
<1> USE DEF HInv
<1>1. sender' = sender /\ client' = client /\ at # "idle" /\ statusOut' = statusOut
  BY DEF Transfer, vars, R!Step, R!InitHandle, R!SetOption, R!EndTransfer, R!ReadBody,
         R!WriteBody
<1>2. HandleIsLocal' /\ FailureIsReported' /\ at' # "idle"
  <2>1. CASE R!InitHandle
    <3>1. CASE R!Record("no handle") /\ R!Fail("no handle")
      BY <1>1, <2>1, <3>1, ReturnInv DEF R!InitHandle, R!Ok
    <3>2. CASE R!Record(R!Ok) /\ at' = "setopt"
      BY <2>1, <3>2, GoOnInv DEF R!InitHandle, R!Record
    <3>. QED  BY <2>1, <3>1, <3>2 DEF R!InitHandle
  <2>2. CASE R!SetOption
    <3>1. PICK answer \in R!Answers :
            /\ R!Record(answer)
            /\ \/ answer = R!Ok /\ at' \in {"setopt", "perform"}
               \/ answer # R!Ok /\ R!Fail(answer)
      BY <2>2 DEF R!SetOption, R!OptionFailed, R!Answers
    <3>2. CASE answer # R!Ok /\ R!Fail(answer)
      BY <1>1, <2>2, <3>1, <3>2, ReturnInv DEF R!SetOption
    <3>3. CASE answer = R!Ok /\ at' \in {"setopt", "perform"}
      BY <2>2, <3>1, <3>3, GoOnInv DEF R!SetOption, R!Record
    <3>. QED  BY <3>1, <3>2, <3>3
  <2>3. CASE R!EndTransfer
    <3>1. PICK answer \in R!Answers :
            /\ R!Record(answer)
            /\ \/ answer # R!Ok /\ R!Fail(answer)
               \/ answer = R!Ok /\ R!Return("response", R!Ok)
      BY <2>3 DEF R!EndTransfer, R!TransferFailed
    <3>. QED  BY <1>1, <2>3, <3>1, ReturnInv DEF R!EndTransfer
  <2>4. ASSUME NEW n \in 1..MaxChunk, R!ReadBody(n) \/ R!WriteBody(n)
        PROVE  HandleIsLocal' /\ FailureIsReported' /\ at' # "idle"
    BY <2>4, GoOnInv DEF R!ReadBody, R!WriteBody
  <2>. QED  BY <2>1, <2>2, <2>3, <2>4 DEF Transfer, R!Step
<1>. QED  BY <1>1, <1>2 DEF SenderIsAlive

\* Nobody else deletes or uses the client that sends.
LEMMA OthersInv ==
  ASSUME TypeOK, HInv, Others
  PROVE  HInv'
<1>1. UNCHANGED <<sender, requestVars>>
  BY DEF Others
<1>2. HandleIsLocal' /\ FailureIsReported'
  BY <1>1 DEF HInv, HandleIsLocal, FailureIsReported, R!FailureIsReported, requestVars
<1>3. sender # None => client'[sender] = "sending"
  BY DEF HInv, SenderIsAlive, TypeOK, Others, LoadLibrary, Construct, DeleteHttp,
         UnloadLibrary, CreateClient, DeleteClient, Finished, vars
<1>. QED  BY <1>1, <1>2, <1>3 DEF HInv, SenderIsAlive, requestVars

LEMMA HttpInductive == TypeOK /\ HInv /\ [HttpNext]_httpVars => HInv'
<1> SUFFICES ASSUME TypeOK, HInv, [HttpNext]_httpVars PROVE HInv'
  OBVIOUS
<1>1. CASE UNCHANGED httpVars
  BY <1>1 DEF httpVars, requestVars, vars, HInv, SenderIsAlive, HandleIsLocal,
              FailureIsReported, R!FailureIsReported
<1>2. CASE BuildRequest
  BY <1>2 DEF BuildRequest, R!Build, R!SetMethod, R!SetBody, R!callVars, vars, HInv,
              SenderIsAlive, HandleIsLocal, FailureIsReported, R!FailureIsReported
<1>3. ASSUME NEW c \in Clients, NEW out \in BOOLEAN, SendRequest(c, out) PROVE HInv'
  BY <1>3, CurlHttpAssumption
     DEF SendRequest, BeginRequest, R!Send, HInv, TypeOK, SenderIsAlive, HandleIsLocal,
         FailureIsReported, R!FailureIsReported
<1>4. ASSUME NEW c \in Clients, Returned(c) PROVE HInv'
  BY <1>4 DEF Returned, R!Collect, HInv, SenderIsAlive, HandleIsLocal,
              FailureIsReported, R!FailureIsReported
<1>. QED  BY <1>1, <1>2, <1>3, <1>4, TransferInv, OthersInv DEF HttpNext

\* Whatever call of libcurl fails, with whatever error, SendRequest returns NULL and
\* tells that error, and otherwise a response and OK, for requests of any size and
\* as often as they are sent (curl_http_client.cc:108-210).
THEOREM FailuresAreReported == HttpSpec => []FailureIsReported
<1>1. HInv => FailureIsReported  BY DEF HInv
<1>2. HttpSpec => []TypeOK  BY RequestsKeepTheLifeCycle, TypeCorrect
<1>. QED  BY HttpInitInv, HttpInductive, <1>1, <1>2, PTL DEF HttpSpec

\* An open handle belongs to a client whose CurlHttp still counts as a user.
LEMMA HandleHasLibrary == IInv /\ HInv => HandlesNeedLibrary
<1> SUFFICES ASSUME IInv, HInv, handle = "open" PROVE HandlesNeedLibrary
  BY DEF HandlesNeedLibrary
<1>1. sender # None /\ sender \in Clients /\ client[sender] = "sending"
  BY DEF HInv, SenderIsAlive, HandleIsLocal
<1>2. source[sender] \in Https /\ sender \in ClientsOf(source[sender])
  BY <1>1 DEF IInv, InOrder, Live, ClientsOf
<1>3. refs[source[sender]] > 0
  <2>1. Cardinality(ClientsOf(source[sender])) > 0
    BY <1>2, FiniteCounts, FS_EmptySet
  <2>. QED  BY <1>2, <2>1, FiniteCounts DEF IInv, RefsAreExact, Own
<1>4. source[sender] \in Users
  BY <1>2, <1>3 DEF Users
<1>5. inits = 1
  BY <1>4, FiniteCounts, FS_EmptySet DEF IInv, CountIsExact, InitsAlternate
<1>. QED  BY <1>1, <1>4, <1>5 DEF HandlesNeedLibrary

\* Curl is used through an easy handle only while it is initialized, whichever
\* CurlHttps come and go meanwhile.
THEOREM HandlesHaveLibrary == HttpSpec => []HandlesNeedLibrary
<1>1. Spec => []IInv  BY InitInv, Inductive, PTL DEF Spec
<1>2. IInv => TypeOK  BY DEF IInv
<1>. QED  BY HttpInitInv, HttpInductive, RequestsKeepTheLifeCycle, HandleHasLibrary,
             <1>1, <1>2, PTL DEF HttpSpec

-----------------------------------------------------------------------------
(* The options of the easy handle.                                         *)


\* The calls of curl_easy_setopt, and the options the first k of them set.
Calls == R!Options
Set(k) == {Calls[i] : i \in 1..k}

\* The options set so far are the first ones of the code.
InOptionOrder ==
    /\ at \in {"idle", "init"} => options = {}
    /\ at = "setopt" => \E k \in 0..(Len(Calls) - 1) :
                           options = Set(k) /\ Cardinality(options) = k /\ IsFiniteSet(options)
    /\ at = "perform" => options = Set(Len(Calls))

\* CurlRequest counts with the Cardinality of this module.
LEMMA CardinalityIs == \A S : R!Cardinality(S) = Cardinality(S)
BY DEF R!Cardinality, Cardinality

LEMMA TwoMore ==
  ASSUME NEW S, NEW p \in Seq(S), NEW q \in Seq(S), NEW n \in Nat, Len(p) = n, Len(q) = 2
  PROVE  /\ p \o q \in Seq(S) /\ Len(p \o q) = n + 2
         /\ \A i \in 1..n : (p \o q)[i] = p[i]
         /\ (p \o q)[n + 1] = q[1] /\ (p \o q)[n + 2] = q[2]
<1>1. /\ Len(p \o q) = n + 2 /\ p \o q \in Seq(S)
      /\ \A i \in 1..(n + 2) : (p \o q)[i] = IF i <= n THEN p[i] ELSE q[i - n]
  BY ConcatProperties
<1>2. /\ n + 1 \in 1..(n + 2) /\ (n + 1) - n = 1 /\ ~(n + 1 <= n)
      /\ n + 2 \in 1..(n + 2) /\ (n + 2) - n = 2 /\ ~(n + 2 <= n)
      /\ \A i \in 1..n : i \in 1..(n + 2) /\ i <= n
  OBVIOUS
<1>. QED  BY <1>1, <1>2

\* The calls in their order, with a body and without.
LEMMA OptionsAre ==
  /\ R!HasBody =>
       /\ Len(Calls) = 6
       /\ Calls[1] = "METHOD" /\ Calls[2] = "URL" /\ Calls[3] = "READFUNCTION"
       /\ Calls[4] = "READDATA" /\ Calls[5] = "WRITEFUNCTION" /\ Calls[6] = "WRITEDATA"
  /\ ~R!HasBody =>
       /\ Len(Calls) = 4
       /\ Calls[1] = "METHOD" /\ Calls[2] = "URL" /\ Calls[3] = "WRITEFUNCTION"
       /\ Calls[4] = "WRITEDATA"
<1> DEFINE Names == {"METHOD", "URL", "READFUNCTION", "READDATA", "WRITEFUNCTION", "WRITEDATA"}
           first == <<"METHOD", "URL">>
           body == <<"READFUNCTION", "READDATA">>
           last == <<"WRITEFUNCTION", "WRITEDATA">>
<1>1. /\ first \in Seq(Names) /\ Len(first) = 2 /\ first[1] = "METHOD" /\ first[2] = "URL"
      /\ body \in Seq(Names) /\ Len(body) = 2
      /\ body[1] = "READFUNCTION" /\ body[2] = "READDATA"
      /\ last \in Seq(Names) /\ Len(last) = 2
      /\ last[1] = "WRITEFUNCTION" /\ last[2] = "WRITEDATA"
  OBVIOUS
<1>2. /\ R!HasBody => Calls = (first \o body) \o last
      /\ ~R!HasBody => Calls = (first \o <<>>) \o last
  BY DEF Calls, R!Options
<1>3. first \o <<>> = first
  BY <1>1, ConcatEmptySeq
<1> HIDE DEF Names, first, body, last
<1>4. CASE R!HasBody
  <2> DEFINE p == first \o body
  <2>1. /\ p \in Seq(Names) /\ Len(p) = 4
        /\ p[1] = first[1] /\ p[2] = first[2] /\ p[3] = body[1] /\ p[4] = body[2]
    BY <1>1, TwoMore
  <2> HIDE DEF p
  <2>2. /\ Len(p \o last) = 6
        /\ (p \o last)[1] = p[1] /\ (p \o last)[2] = p[2] /\ (p \o last)[3] = p[3]
        /\ (p \o last)[4] = p[4] /\ (p \o last)[5] = last[1] /\ (p \o last)[6] = last[2]
    <3> DEFINE n == Len(p)
    <3>1. n \in Nat
      BY <2>1
    <3>2. /\ Len(p \o last) = n + 2 /\ \A i \in 1..n : (p \o last)[i] = p[i]
          /\ (p \o last)[n + 1] = last[1] /\ (p \o last)[n + 2] = last[2]
      <4> HIDE DEF n
      <4>1. Len(p) = n
        BY DEF n
      <4>. QED  BY <1>1, <2>1, <3>1, <4>1, TwoMore
    <3>3. 1 \in 1..n /\ 2 \in 1..n /\ 3 \in 1..n /\ 4 \in 1..n /\ n + 1 = 5 /\ n + 2 = 6
      BY <2>1
    <3>. QED  BY <3>2, <3>3
  <2>3. Calls = p \o last
    BY <1>2, <1>4 DEF p
  <2>. QED  BY <1>1, <1>4, <2>1, <2>2, <2>3
<1>5. CASE ~R!HasBody
  <2>1. /\ Len(first \o last) = 4
        /\ (first \o last)[1] = first[1] /\ (first \o last)[2] = first[2]
        /\ (first \o last)[3] = last[1] /\ (first \o last)[4] = last[2]
    BY <1>1, TwoMore
  <2>2. Calls = first \o last
    BY <1>2, <1>3, <1>5
  <2>. QED  BY <1>1, <1>5, <2>1, <2>2
<1>. QED  BY <1>4, <1>5

LEMMA OptionsDiffer ==
  /\ Len(Calls) \in {4, 6}
  /\ \A i, j \in 1..Len(Calls) : Calls[i] = Calls[j] => i = j
<1>1. CASE R!HasBody
  <2>1. 1..Len(Calls) = {1, 2, 3, 4, 5, 6}
    <3>1. Len(Calls) = 6
      BY <1>1, OptionsAre
    <3>. QED  BY <3>1
  <2>. QED  BY <1>1, <2>1, OptionsAre
<1>2. CASE ~R!HasBody
  <2>1. 1..Len(Calls) = {1, 2, 3, 4}
    <3>1. Len(Calls) = 4
      BY <1>2, OptionsAre
    <3>. QED  BY <3>1
  <2>. QED  BY <1>2, <2>1, OptionsAre
<1>. QED  BY <1>1, <1>2

LEMMA SetGrows ==
  ASSUME NEW k \in Nat
  PROVE  Set(k) \cup {Calls[k + 1]} = Set(k + 1)
<1>1. 1..(k + 1) = (1..k) \cup {k + 1}
  OBVIOUS
<1>. QED  BY <1>1 DEF Set

LEMMA SetOptionInOrder ==
  ASSUME InOptionOrder, R!SetOption
  PROVE  InOptionOrder'
<1>1. PICK k \in 0..(Len(Calls) - 1) :
         options = Set(k) /\ Cardinality(options) = k /\ IsFiniteSet(options)
  BY DEF R!SetOption, InOptionOrder
<1>2. Calls' = Calls
  BY DEF R!SetOption, Calls, R!Options, R!HasBody
<1>3. CASE /\ options' = options \cup {Calls[k + 1]}
           /\ at' = IF Cardinality(options') = Len(Calls) THEN "perform" ELSE "setopt"
  <2>1. k \in Nat /\ k + 1 \in 1..Len(Calls) /\ \A i \in 1..k : i # k + 1 /\ i \in 1..Len(Calls)
    BY OptionsDiffer
  <2>2. Calls[k + 1] \notin options
    BY <1>1, <2>1, OptionsDiffer DEF Set
  <2>3. options' = Set(k + 1)
    BY <1>1, <1>3, <2>1, SetGrows
  <2>4. Cardinality(options') = k + 1 /\ IsFiniteSet(options')
    BY <1>1, <1>3, <2>2, FS_AddElement
  <2>5. \A n : Set(n)' = Set(n)
    BY <1>2 DEF Set
  <2>6. CASE k + 1 = Len(Calls)
    <3>1. at' = "perform"
      BY <1>3, <2>4, <2>6
    <3>. QED  BY <1>2, <2>3, <2>5, <2>6, <3>1 DEF InOptionOrder
  <2>7. CASE k + 1 # Len(Calls)
    <3>1. at' = "setopt"
      BY <1>3, <2>4, <2>7
    <3>2. k + 1 \in 0..(Len(Calls) - 1)
      BY <2>1, <2>7, OptionsDiffer
    <3>. QED  BY <1>2, <2>3, <2>4, <2>5, <3>1, <3>2 DEF InOptionOrder
  <2>. QED  BY <2>6, <2>7
<1>4. CASE at' = "done"
  BY <1>4 DEF InOptionOrder
<1>5. \/ at' = "done"
      \/ /\ options' = options \cup {Calls[Cardinality(options) + 1]}
         /\ at' = IF Cardinality(options') = Len(Calls) THEN "perform" ELSE "setopt"
  BY CardinalityIs DEF R!SetOption, R!OptionFailed, R!Fail, R!Return, Calls
<1>. QED  BY <1>1, <1>3, <1>4, <1>5

LEMMA OrderedInit == HttpInit => InOptionOrder
BY DEF HttpInit, R!Init, InOptionOrder

LEMMA OrderedStep == InOptionOrder /\ [HttpNext]_httpVars => InOptionOrder'
<1> SUFFICES ASSUME InOptionOrder, [HttpNext]_httpVars PROVE InOptionOrder'
  OBVIOUS
\* The options of a request stay what they are while it is in progress.
<1>1. ASSUME UNCHANGED <<request, at, options>> PROVE InOptionOrder'
  <2>1. Calls' = Calls
    BY <1>1 DEF Calls, R!Options, R!HasBody
  <2>2. \A n : Set(n)' = Set(n)
    BY <2>1 DEF Set
  <2>. QED  BY <1>1, <2>1, <2>2 DEF InOptionOrder
<1>2. ASSUME at' \in {"idle", "init"}, options' = {} PROVE InOptionOrder'
  BY <1>2 DEF InOptionOrder
<1>3. CASE BuildRequest
  BY <1>2, <1>3 DEF BuildRequest, R!Build, R!SetMethod, R!SetBody, R!callVars, InOptionOrder
<1>4. ASSUME NEW c \in Clients, Returned(c) PROVE InOptionOrder'
  BY <1>2, <1>4 DEF Returned, R!Collect
<1>5. ASSUME NEW c \in Clients, NEW out \in BOOLEAN, SendRequest(c, out) PROVE InOptionOrder'
  BY <1>2, <1>5 DEF SendRequest, R!Send, InOptionOrder
<1>6. CASE R!InitHandle
  <2>1. CASE at' = "setopt"
    <3>1. options' = {} /\ Cardinality({}) = 0 /\ IsFiniteSet({})
      BY <1>6, FS_EmptySet DEF R!InitHandle, InOptionOrder
    <3>2. Calls' = Calls
      BY <1>6 DEF R!InitHandle, Calls, R!Options, R!HasBody
    <3>3. Set(0)' = {} /\ 0 \in 0..(Len(Calls) - 1)
      BY OptionsDiffer DEF Set
    <3>. QED  BY <2>1, <3>1, <3>2, <3>3 DEF InOptionOrder
  <2>2. CASE at' = "done"
    BY <2>2 DEF InOptionOrder
  <2>. QED  BY <1>6, <2>1, <2>2 DEF R!InitHandle, R!Fail, R!Return
<1>7. CASE R!EndTransfer
  BY <1>7 DEF R!EndTransfer, R!Fail, R!Return, InOptionOrder
<1>8. ASSUME NEW n \in 1..MaxChunk, R!ReadBody(n) \/ R!WriteBody(n) PROVE InOptionOrder'
  BY <1>1, <1>8 DEF R!ReadBody, R!WriteBody
<1>9. CASE Transfer
  BY <1>6, <1>7, <1>8, <1>9, SetOptionInOrder DEF Transfer, R!Step
<1>10. CASE Others \/ UNCHANGED httpVars
  BY <1>1, <1>10 DEF Others, httpVars, requestVars
<1>. QED  BY <1>3, <1>4, <1>5, <1>9, <1>10 DEF HttpNext

\* Whenever curl may call back, every callback has its data, and the read callback
\* is there exactly for a body (curl_http_client.cc:47-74, 161-199).
THEOREM CallbacksAlwaysHaveTheirData == HttpSpec => []CallbacksHaveTheirData
<1>1. InOptionOrder => CallbacksHaveTheirData
  <2> SUFFICES ASSUME at = "perform", options = Set(Len(Calls))
               PROVE  CallbacksHaveTheirData
    BY DEF InOptionOrder, CallbacksHaveTheirData, R!CallbacksHaveTheirData
  <2>1. CASE R!HasBody
    <3>1. 1..Len(Calls) = {1, 2, 3, 4, 5, 6}
      <4>1. Len(Calls) = 6
        BY <2>1, OptionsAre
      <4>. QED  BY <4>1
    <3>. QED  BY <2>1, <3>1, OptionsAre DEF Set, CallbacksHaveTheirData, R!CallbacksHaveTheirData
  <2>2. CASE ~R!HasBody
    <3>1. 1..Len(Calls) = {1, 2, 3, 4}
      <4>1. Len(Calls) = 4
        BY <2>2, OptionsAre
      <4>. QED  BY <4>1
    <3>. QED  BY <2>2, <3>1, OptionsAre DEF Set, CallbacksHaveTheirData, R!CallbacksHaveTheirData
  <2>. QED  BY <2>1, <2>2
<1>. QED  BY OrderedInit, OrderedStep, <1>1, PTL DEF HttpSpec
=============================================================================

------------------------------- MODULE CurlHttp -------------------------------
(***************************************************************************)
(* The life of the curl library under http/curl_http.cc: LoadLibrary() and *)
(* UnloadLibrary() count the CurlHttp objects under a global mutex, and    *)
(* each CurlHttp shares one reference (a Shared<void>::Ptr) with the       *)
(* clients made from it.  Any thread may create and delete any of them; a  *)
(* step is one critical section or one atomic operation on a count.        *)
(***************************************************************************)
EXTENDS Integers, FiniteSets

CONSTANTS
    Https,          \* the CurlHttp objects, each created at most once
    Clients,        \* the CurlHttpClient objects, likewise
    None

ASSUME CurlHttpAssumption ==
    /\ IsFiniteSet(Https) /\ IsFiniteSet(Clients)
    /\ None \notin Https \cup Clients

VARIABLES
    refCount,       \* g_curl_library_reference_count
    inits,          \* calls of curl_global_init less calls of curl_global_cleanup
    http,           \* what became of each CurlHttp
    client,         \* what became of each CurlHttpClient
    source,         \* the CurlHttp a client was made from
    refs,           \* ref_count_ behind the module_ref_ of each CurlHttp
    unloading       \* the CurlHttps whose count fell to zero: UnloadLibrary is due

libVars == <<refCount, inits>>
vars == <<libVars, http, client, source, refs, unloading>>

Init ==
    /\ refCount = 0
    /\ inits = 0
    /\ http = [h \in Https |-> "none"]
    /\ client = [c \in Clients |-> "none"]
    /\ source = [c \in Clients |-> None]
    /\ refs = [h \in Https |-> 0]
    /\ unloading = {}

\* Mutant: the count is incremented before curl_global_init can fail.
Counted == refCount' = refCount + 1 /\ UNCHANGED inits

\* curl_global_init fails.
NotCounted == UNCHANGED libVars

\* LoadLibrary() of CurlHttp::Create: the first user initializes curl, and Create
\* returns NULL if that fails.
LoadLibrary(h) ==
    /\ http[h] = "none"
    /\ \/ /\ refCount = 0
          /\ http' = [http EXCEPT ![h] = "failed"]
          /\ NotCounted
       \/ /\ inits' = IF refCount = 0 THEN inits + 1 ELSE inits
          /\ refCount' = refCount + 1
          /\ http' = [http EXCEPT ![h] = "loaded"]
    /\ UNCHANGED <<client, source, refs, unloading>>

\* The rest of Create: the CurlHttp and the shared pointer whose deleter is
\* UnloadLibrary.
Construct(h) ==
    /\ http[h] = "loaded"
    /\ http' = [http EXCEPT ![h] = "alive"]
    /\ refs' = [refs EXCEPT ![h] = 1]
    /\ UNCHANGED <<libVars, client, source, unloading>>

\* Mutant: the client keeps a plain pointer.
NotCopied(h) == refs[h]

\* library_ref_(library_ref).
Copied(h) == refs[h] + 1

\* CreateClient: the client keeps a copy of module_ref_.  (The copies that pass
\* it to the constructor come and go while module_ref_ itself is alive.)
CreateClient(h, c) ==
    /\ http[h] = "alive"
    /\ client[c] = "none"
    /\ client' = [client EXCEPT ![c] = "idle"]
    /\ source' = [source EXCEPT ![c] = h]
    /\ refs' = [refs EXCEPT ![h] = Copied(h)]
    /\ UNCHANGED <<libVars, http, unloading>>

\* SendRequest uses curl from curl_easy_init to curl_easy_cleanup.
BeginRequest(c) ==
    /\ client[c] = "idle"
    /\ client' = [client EXCEPT ![c] = "sending"]
    /\ UNCHANGED <<libVars, http, source, refs, unloading>>

EndRequest(c) ==
    /\ client[c] = "sending"
    /\ client' = [client EXCEPT ![c] = "idle"]
    /\ UNCHANGED <<libVars, http, source, refs, unloading>>

\* ReferenceCountedDeleter::Down: whoever gets zero from the atomic decrement
\* goes on to call the deleter.
Down(h) ==
    /\ refs' = [refs EXCEPT ![h] = @ - 1]
    /\ unloading' = IF refs[h] = 1 THEN unloading \cup {h} ELSE unloading

DeleteHttp(h) ==
    /\ http[h] = "alive"
    /\ http' = [http EXCEPT ![h] = "deleted"]
    /\ Down(h)
    /\ UNCHANGED <<libVars, client, source>>

DeleteClient(c) ==
    /\ client[c] = "idle"
    /\ client' = [client EXCEPT ![c] = "deleted"]
    /\ Down(source[c])
    /\ UNCHANGED <<libVars, http, source>>

\* Mutant: curl_global_cleanup whoever else uses the library.
AnyUser == TRUE

\* The count falls to zero.
LastUser == refCount = 1

UnloadLibrary(h) ==
    /\ h \in unloading
    /\ unloading' = unloading \ {h}
    /\ refCount' = refCount - 1
    /\ inits' = IF LastUser THEN inits - 1 ELSE inits
    /\ UNCHANGED <<http, client, source, refs>>

\* Every CurlHttp was tried, everything that was created is deleted again.
AllDeleted ==
    /\ \A h \in Https : http[h] \in {"failed", "deleted"}
    /\ \A c \in Clients : client[c] \in {"none", "deleted"}

Finished == AllDeleted /\ unloading = {} /\ UNCHANGED vars

Next ==
    \/ \E h \in Https :
         \/ LoadLibrary(h) \/ Construct(h) \/ DeleteHttp(h) \/ UnloadLibrary(h)
         \/ \E c \in Clients : CreateClient(h, c)
    \/ \E c \in Clients : BeginRequest(c) \/ EndRequest(c) \/ DeleteClient(c)
    \/ Finished

Spec == Init /\ [][Next]_vars

-----------------------------------------------------------------------------
(* Properties.                                                             *)

TypeOK ==
    /\ refCount \in Nat
    /\ inits \in Nat
    /\ http \in [Https -> {"none", "loaded", "alive", "failed", "deleted"}]
    /\ client \in [Clients -> {"none", "idle", "sending", "deleted"}]
    /\ source \in [Clients -> Https \cup {None}]
    /\ refs \in [Https -> Nat]
    /\ unloading \subseteq Https

\* The CurlHttps that count as users of the library.
Users == {h \in Https : http[h] = "loaded" \/ refs[h] > 0 \/ h \in unloading}

\* The global count is the number of CurlHttps with anything left of them; their
\* clients are not counted (curl_http_test.cc:59-66, http_client_test.cc:54-58).
CountIsExact == refCount = Cardinality(Users)

\* curl_global_init and curl_global_cleanup alternate, and curl is initialized
\* exactly while it is counted (curl_http.cc:45-51, 58-62).
InitsAlternate == inits = IF refCount > 0 THEN 1 ELSE 0

\* Nothing that may call curl outlives the library, in whatever order clients
\* and the CurlHttps they came from are deleted, by whatever threads.
LibraryOutlivesUsers ==
    (\/ \E h \in Https : http[h] \in {"loaded", "alive"}
     \/ \E c \in Clients : client[c] \in {"idle", "sending"}) => inits > 0
===============================================================================

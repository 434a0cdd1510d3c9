------------------------------ MODULE Handles ------------------------------
(***************************************************************************)
(* The handle tree of the driver: connections (DBC), statements (STMT) and *)
(* descriptors (DESC), and the three kinds of pointer between them:        *)
(*                                                                         *)
(*   - DBC::stmt_list and DBC::desc_list, the handles a connection frees;  *)
(*   - STMT::apd and STMT::ard, the application descriptors in force;      *)
(*   - DESC::stmt_list, the statements an explicit descriptor serves, which*)
(*     SQLFreeHandle(SQL_HANDLE_DESC) sends back to their implicit ones.   *)
(*                                                                         *)
(* A handle is an address.  Allocating one takes an unused address, freeing*)
(* one returns it, so an address that somebody still points at can be      *)
(* handed out again, as an allocator does.  A handler that dereferences    *)
(* a freed object, or deletes one twice, sets badDeref.                    *)
(***************************************************************************)
EXTENDS Naturals

CONSTANTS
    Dbcs,            \* addresses of connection handles
    Stmts,           \* addresses of statement handles
    Descs,           \* addresses of explicitly allocated descriptors
    NoDbc, NoStmt,   \* null pointers
    RejectedCalls,   \* does the application ever pass SQLSetStmtAttr a
                     \* descriptor that the driver refuses?
    MaxCopies        \* how many times it calls SQLCopyDesc (a bound for TLC)

DescTypes == {"PARAM", "ROW"}            \* desc_desc_type, once it is known
RefTypes  == {"APP", "IMP"}              \* desc_ref_type

(* The four descriptors every STMT embeds: m_apd, m_ard, m_ipd, m_ird.     *)
ImpDescs == Stmts \X RefTypes \X DescTypes

AllDescs == Descs \cup ImpDescs

ASSUME HandlesAssumption ==
    /\ NoDbc \notin Dbcs
    /\ NoStmt \notin Stmts
    /\ Descs \cap ImpDescs = {}
    /\ RejectedCalls \in BOOLEAN
    /\ MaxCopies \in Nat

VARIABLES
    dbcs,            \* the connection handles that exist
    connected,       \* those with DBC::mysql # nullptr
    need_to_wakeup,  \* those whose DBC::need_to_wakeup is set (in the pool)
    stmtDbc,         \* STMT::dbc, NoDbc when the address holds no statement
    app,             \* app[s]["PARAM"] is STMT::apd, app[s]["ROW"] STMT::ard
    descs,           \* the explicit descriptors that exist
    desc,            \* the fields of every descriptor
    stmt_list,       \* DBC::stmt_list
    desc_list,       \* DBC::desc_list
    copies,          \* calls of SQLCopyDesc so far
    badDeref,        \* a freed object was dereferenced or deleted again
    born             \* born[d]: history, the connection d was allocated for,
                     \* until that is reset for the pool or freed

vars == <<dbcs, connected, need_to_wakeup, stmtDbc, app, descs, desc,
          stmt_list, desc_list, copies, badDeref, born>>

DescRecord == [alloc : {"USER", "AUTO"},               \* alloc_type
               dtype : DescTypes \cup {"UNKNOWN"},     \* desc_type
               ref   : RefTypes,                       \* ref_type
               stmt  : Stmts \cup {NoStmt},
               dbc   : Dbcs \cup {NoDbc},
               list  : SUBSET Stmts]                   \* DESC::stmt_list

(* DESC::DESC as my_SQLAllocDesc calls it, before dbc is filled in.        *)
ExplicitDesc(c) == [alloc |-> "USER", dtype |-> "UNKNOWN", ref |-> "APP",
                    stmt |-> NoStmt, dbc |-> c, list |-> {}]

(* DESC::DESC as the STMT constructor calls it for member o.               *)
ImplicitDesc(o, c) == [alloc |-> "AUTO", dtype |-> o[3], ref |-> o[2],
                       stmt |-> o[1], dbc |-> c, list |-> {}]

(* STMT::imp_apd and STMT::imp_ard.                                        *)
ImpApp(s, t) == <<s, "APP", t>>

LiveStmts == {s \in Stmts : stmtDbc[s] # NoDbc}

StmtsOf(c) == {s \in Stmts : stmtDbc[s] = c}

LiveDesc(o) == IF o \in Descs THEN o \in descs ELSE o[1] \in LiveStmts

IsIrd(o) == desc[o].dtype = "ROW" /\ desc[o].ref = "IMP"

(* DESC::stmt_list_remove and DESC::stmt_list_add: they act on explicit    *)
(* descriptors only, and tell them by alloc_type.                          *)
stmt_list_remove(ds, o, s) ==
    IF ds[o].alloc = "USER"
    THEN [ds EXCEPT ![o].list = @ \ {s}]
    ELSE ds

stmt_list_add(ds, o, s) ==
    IF ds[o].alloc = "USER"
    THEN [ds EXCEPT ![o].list = @ \cup {s}]
    ELSE ds

(* dbc->stmt_list.remove / erase.  (Variant: the destructor forgets it.)   *)
EraseForgotten(c, ss) == stmt_list

Erase(c, ss) == [stmt_list EXCEPT ![c] = @ \ ss]

(* DBC::remove_desc.                                                       *)
remove_desc(c, d) == [desc_list EXCEPT ![c] = @ \ {d}]

(* WAKEUP_CONN_IF_NEEDED.                                                  *)
Wakeup(c) == need_to_wakeup \ {c}

-----------------------------------------------------------------------------
Init ==
    /\ dbcs = {}
    /\ connected = {}
    /\ need_to_wakeup = {}
    /\ stmtDbc = [s \in Stmts |-> NoDbc]
    /\ app = [s \in Stmts |-> [t \in DescTypes |-> ImpApp(s, t)]]
    /\ descs = {}
    /\ desc = [o \in AllDescs |-> IF o \in Descs
                                  THEN ExplicitDesc(NoDbc)
                                  ELSE ImplicitDesc(o, NoDbc)]
    /\ stmt_list = [c \in Dbcs |-> {}]
    /\ desc_list = [c \in Dbcs |-> {}]
    /\ copies = 0
    /\ badDeref = FALSE
    /\ born = [d \in Descs |-> NoDbc]

-----------------------------------------------------------------------------
(* Connections.                                                            *)

my_SQLAllocConnect(c) ==
    /\ c \notin dbcs
    /\ dbcs' = dbcs \cup {c}
    /\ stmt_list' = [stmt_list EXCEPT ![c] = {}]
    /\ desc_list' = [desc_list EXCEPT ![c] = {}]
    /\ UNCHANGED <<connected, need_to_wakeup, stmtDbc, app, descs, desc,
                   copies, badDeref, born>>

(* SQLConnect and SQLDriverConnect, as far as handles go.                  *)
Connect(c) ==
    /\ c \in dbcs \ connected
    /\ connected' = connected \cup {c}
    /\ UNCHANGED <<dbcs, need_to_wakeup, stmtDbc, app, descs, desc,
                   stmt_list, desc_list, copies, badDeref, born>>

(* A connection attribute call takes the connection out of the pool.       *)
wakeup_connection(c) ==
    /\ c \in connected \cap need_to_wakeup
    /\ need_to_wakeup' = Wakeup(c)
    /\ UNCHANGED <<dbcs, connected, stmtDbc, app, descs, desc,
                   stmt_list, desc_list, copies, badDeref, born>>

(* my_SQLFreeStmt(SQL_DROP) of every statement of ss touches the two       *)
(* application descriptors of each, which must still exist.                *)
DropIsSafe(ss) ==
    \A s \in ss, t \in DescTypes :
        /\ LiveDesc(app[s][t])
        /\ app[s][t] \in ImpDescs => app[s][t][1] \notin ss \ {s}

(* (Variant of the next: the drop takes the statement off its APD only.)   *)
DropDescsApdOnly(ss) ==
    [o \in AllDescs |->
        IF o \in ImpDescs /\ o[1] \in ss THEN ImplicitDesc(o, NoDbc)
        ELSE [desc[o] EXCEPT !.list =
                {s \in @ : ~(s \in ss /\ app[s]["PARAM"] = o)}]]

(* The descriptors after those drops: each statement is off the lists of   *)
(* the two descriptors it pointed at, and its embedded ones are gone.      *)
DropDescs(ss) ==
    [o \in AllDescs |->
        IF o \in ImpDescs /\ o[1] \in ss THEN ImplicitDesc(o, NoDbc)
        ELSE IF desc[o].alloc = "USER"
             THEN [desc[o] EXCEPT !.list =
                     {s \in @ : ~(s \in ss /\ \E t \in DescTypes :
                                                 app[s][t] = o)}]
             ELSE desc[o]]

DropStmts(ss) ==
    /\ stmtDbc' = [s \in Stmts |-> IF s \in ss THEN NoDbc ELSE stmtDbc[s]]
    /\ app' = [s \in Stmts |-> IF s \in ss
                               THEN [t \in DescTypes |-> ImpApp(s, t)]
                               ELSE app[s]]

(* DBC::free_connection_stmts, then DBC::close.  The explicit descriptors  *)
(* stay until the handle is freed, and so does need_to_wakeup.             *)
SQLDisconnect(c) ==
    /\ c \in connected
    /\ DropIsSafe(stmt_list[c])
    /\ DropStmts(stmt_list[c])
    /\ desc' = DropDescs(stmt_list[c])
    /\ stmt_list' = Erase(c, stmt_list[c])
    /\ connected' = connected \ {c}
    /\ UNCHANGED <<dbcs, need_to_wakeup, descs, desc_list, copies,
                   badDeref, born>>

(* Whoever uses the connection next, its descriptors are not for him.      *)
Outlive(c) == [d \in Descs |-> IF born[d] = c THEN NoDbc ELSE born[d]]

(* (Variant of the next: the list is emptied, and nothing is deleted.)     *)
ForgetExplicit(c) ==
    /\ descs' = descs
    /\ desc_list' = [desc_list EXCEPT ![c] = {}]
    /\ born' = Outlive(c)

free_explicit_descriptors(c) ==
    /\ descs' = descs \ desc_list[c]
    /\ desc_list' = [desc_list EXCEPT ![c] = {}]
    /\ born' = Outlive(c)

(* Deleting the explicit descriptors of ds leaves their slots unused.      *)
ForgetDescs(f, ds) ==
    [o \in AllDescs |-> IF o \in ds THEN ExplicitDesc(NoDbc) ELSE f[o]]

(* SQLSetConnectAttr(SQL_ATTR_RESET_CONNECTION): reset_connection frees the*)
(* statements and then the explicit descriptors, and the connection is put *)
(* into the pool.  A connection that is in the pool is woken up first,     *)
(* which leaves need_to_wakeup as this handler does.                       *)
reset_connection(c) ==
    /\ c \in connected
    /\ DropIsSafe(stmt_list[c]) /\ desc_list[c] \subseteq descs
    /\ DropStmts(stmt_list[c])
    /\ desc' = ForgetDescs(DropDescs(stmt_list[c]), desc_list[c])
    /\ free_explicit_descriptors(c)
    /\ stmt_list' = Erase(c, stmt_list[c])
    /\ need_to_wakeup' = need_to_wakeup \cup {c}
    /\ UNCHANGED <<dbcs, connected, copies, badDeref>>

(* SQLFreeHandle(SQL_HANDLE_DBC).  The driver manager lets only a          *)
(* disconnected handle through.                                            *)
my_SQLFreeConnect(c) ==
    /\ c \in dbcs \ connected
    /\ desc_list[c] \subseteq descs
    /\ free_explicit_descriptors(c)
    /\ desc' = ForgetDescs(desc, desc_list[c])
    /\ dbcs' = dbcs \ {c}
    /\ need_to_wakeup' = need_to_wakeup \ {c}
    /\ stmt_list' = [stmt_list EXCEPT ![c] = {}]
    /\ UNCHANGED <<connected, stmtDbc, app, copies, badDeref>>

-----------------------------------------------------------------------------
(* Statements.                                                             *)

(* my_SQLAllocStmt and the STMT constructor.  A pooled connection is woken *)
(* up first; when that fails the call returns SQL_ERROR and nothing        *)
(* changes.                                                                *)
my_SQLAllocStmt(c, s) ==
    /\ c \in connected
    /\ s \notin LiveStmts
    /\ need_to_wakeup' = Wakeup(c)
    /\ stmtDbc' = [stmtDbc EXCEPT ![s] = c]
    /\ app' = [app EXCEPT ![s] = [t \in DescTypes |-> ImpApp(s, t)]]
    /\ desc' = [o \in AllDescs |-> IF o \in ImpDescs /\ o[1] = s
                                   THEN ImplicitDesc(o, c) ELSE desc[o]]
    /\ stmt_list' = [stmt_list EXCEPT ![c] = @ \cup {s}]
    /\ UNCHANGED <<dbcs, connected, descs, desc_list, copies, badDeref, born>>

(* my_SQLFreeStmtExtended(SQL_DROP) and the STMT destructor.               *)
my_SQLFreeStmt(s) ==
    /\ s \in LiveStmts
    /\ DropIsSafe({s})
    /\ DropStmts({s})
    /\ desc' = DropDescs({s})
    /\ stmt_list' = Erase(stmtDbc[s], {s})
    /\ UNCHANGED <<dbcs, connected, need_to_wakeup, descs, desc_list,
                   copies, badDeref, born>>

-----------------------------------------------------------------------------
(* Descriptors.                                                            *)

my_SQLAllocDesc(c, d) ==
    /\ c \in connected
    /\ d \notin descs
    /\ descs' = descs \cup {d}
    /\ desc' = [desc EXCEPT ![d] = ExplicitDesc(c)]
    /\ desc_list' = [desc_list EXCEPT ![c] = @ \cup {d}]
    /\ born' = [born EXCEPT ![d] = c]
    /\ UNCHANGED <<dbcs, connected, need_to_wakeup, stmtDbc, app, stmt_list,
                   copies, badDeref>>

(* (Variant of the next: descriptors of another connection are accepted.)  *)
RefusedAnyConnection(s, t, o) ==
    \/ desc[o].alloc = "AUTO" /\ desc[o].stmt # s
    \/ desc[o].dtype \notin {"UNKNOWN", t}

(* The three refusals of SQLSetStmtAttr(SQL_ATTR_APP_PARAM_DESC /          *)
(* SQL_ATTR_APP_ROW_DESC).                                                 *)
Refused(s, t, o) ==
    \/ desc[o].alloc = "AUTO" /\ desc[o].stmt # s              \* S1017
    \/ desc[o].alloc = "USER" /\ desc[o].dbc # stmtDbc[s]      \* S1024
    \/ desc[o].dtype \notin {"UNKNOWN", t}                     \* S1024

(* SQLSetStmtAttr with a descriptor it accepts.                            *)
SetAppDesc(s, t, o) ==
    /\ s \in LiveStmts /\ LiveDesc(o)
    /\ LiveDesc(app[s][t])
    /\ ~Refused(s, t, o)
    /\ desc' = LET removed == stmt_list_remove(desc, app[s][t], s)
                   added   == stmt_list_add(removed, o, s)
               IN  [added EXCEPT ![o].dtype = t]
    /\ app' = [app EXCEPT ![s][t] = o]
    /\ UNCHANGED <<dbcs, connected, need_to_wakeup, stmtDbc, descs,
                   stmt_list, desc_list, copies, badDeref, born>>

(* The call takes the statement off its present descriptor first, whatever *)
(* comes of the new one: on a refusal it keeps the old descriptor, which   *)
(* no longer lists it.                                                     *)
SetAppDescRefused(s, t, o) ==
    /\ RejectedCalls
    /\ s \in LiveStmts /\ LiveDesc(o)
    /\ LiveDesc(app[s][t])
    /\ Refused(s, t, o)
    /\ desc' = stmt_list_remove(desc, app[s][t], s)
    /\ UNCHANGED <<dbcs, connected, need_to_wakeup, stmtDbc, app, descs,
                   stmt_list, desc_list, copies, badDeref, born>>

(* SQLSetStmtAttr with SQL_NULL_HANDLE: back to the implicit descriptor.   *)
SetAppDescNull(s, t) ==
    /\ s \in LiveStmts
    /\ LiveDesc(app[s][t])
    /\ desc' = stmt_list_remove(desc, app[s][t], s)
    /\ app' = [app EXCEPT ![s][t] = ImpApp(s, t)]
    /\ UNCHANGED <<dbcs, connected, need_to_wakeup, stmtDbc, descs,
                   stmt_list, desc_list, copies, badDeref, born>>

(* my_SQLFreeDesc.  An embedded descriptor is refused (HY017) unless its   *)
(* alloc_type says it is an explicit one, and then it is deleted although  *)
(* it is a member of a statement.                                          *)
FreeDescIsSafe(o) ==
    /\ o \in Descs
    /\ desc[o].dbc \in dbcs
    /\ desc[o].ref = "APP" /\ desc[o].dtype \in DescTypes
          => desc[o].list \subseteq LiveStmts

(* The loop over desc->stmt_list.  (Variant: row descriptors are forgotten.)*)
ResetUsersParamOnly(o) ==
    [s \in Stmts |-> IF s \in desc[o].list /\ desc[o].dtype = "PARAM"
                     THEN [app[s] EXCEPT !["PARAM"] = ImpApp(s, "PARAM")]
                     ELSE app[s]]

ResetUsers(o) ==
    [s \in Stmts |-> IF /\ s \in desc[o].list
                        /\ desc[o].ref = "APP" /\ desc[o].dtype \in DescTypes
                     THEN [app[s] EXCEPT ![desc[o].dtype] =
                              ImpApp(s, desc[o].dtype)]
                     ELSE app[s]]

my_SQLFreeDesc(o) ==
    /\ LiveDesc(o)
    /\ desc[o].alloc = "USER"
    /\ FreeDescIsSafe(o)
    /\ desc_list' = remove_desc(desc[o].dbc, o)
    /\ app' = ResetUsers(o)
    /\ descs' = descs \ {o}
    /\ desc' = [desc EXCEPT ![o] = ExplicitDesc(NoDbc)]
    /\ born' = [born EXCEPT ![o] = NoDbc]
    /\ UNCHANGED <<dbcs, connected, need_to_wakeup, stmtDbc, stmt_list,
                   copies, badDeref>>

(* MySQLCopyDesc.  The target must not be an IRD, and an IRD is a source   *)
(* only of a prepared statement, a choice this model leaves open; then     *)
(* "*dest = *src" copies every field, the list and alloc_type included.    *)
CopyIsSafe(src) == IsIrd(src) => desc[src].stmt \in LiveStmts

MySQLCopyDesc(src, dest) ==
    /\ copies < MaxCopies
    /\ LiveDesc(src) /\ LiveDesc(dest)
    /\ ~IsIrd(dest)
    /\ CopyIsSafe(src)
    /\ desc' = [desc EXCEPT ![dest] = desc[src]]
    /\ copies' = copies + 1
    /\ UNCHANGED <<dbcs, connected, need_to_wakeup, stmtDbc, app, descs,
                   stmt_list, desc_list, badDeref, born>>

-----------------------------------------------------------------------------
(* A call whose handler follows a pointer to a freed handle, deletes a     *)
(* descriptor twice, or deletes one embedded in a statement.  The model    *)
(* carries on as if the memory were intact.                                *)
UndefinedBehaviour ==
    /\ \/ \E c \in connected : ~DropIsSafe(stmt_list[c])
       \/ \E c \in dbcs : ~(desc_list[c] \subseteq descs)
       \/ \E o \in AllDescs :
             LiveDesc(o) /\ desc[o].alloc = "USER" /\ ~FreeDescIsSafe(o)
       \/ \E o \in AllDescs :
             copies < MaxCopies /\ LiveDesc(o) /\ ~CopyIsSafe(o)
    /\ badDeref' = TRUE
    /\ UNCHANGED <<dbcs, connected, need_to_wakeup, stmtDbc, app, descs, desc,
                   stmt_list, desc_list, copies, born>>

Next ==
    \/ \E c \in Dbcs : \/ my_SQLAllocConnect(c) \/ Connect(c)
                       \/ SQLDisconnect(c) \/ reset_connection(c)
                       \/ wakeup_connection(c) \/ my_SQLFreeConnect(c)
    \/ \E c \in Dbcs, s \in Stmts : my_SQLAllocStmt(c, s)
    \/ \E s \in Stmts : my_SQLFreeStmt(s)
    \/ \E c \in Dbcs, d \in Descs : my_SQLAllocDesc(c, d)
    \/ \E s \in Stmts, t \in DescTypes, o \in AllDescs :
          SetAppDesc(s, t, o) \/ SetAppDescRefused(s, t, o)
    \/ \E s \in Stmts, t \in DescTypes : SetAppDescNull(s, t)
    \/ \E o \in AllDescs : my_SQLFreeDesc(o)
    \/ \E src, dest \in AllDescs : MySQLCopyDesc(src, dest)
    \/ UndefinedBehaviour

Spec == Init /\ [][Next]_vars

-----------------------------------------------------------------------------
(* Every pointer is an address of its kind: in particular STMT::apd and    *)
(* STMT::ard are never null, which no handler checks for.                  *)
TypeOK ==
    /\ dbcs \subseteq Dbcs
    /\ connected \subseteq dbcs
    /\ need_to_wakeup \subseteq dbcs
    /\ stmtDbc \in [Stmts -> Dbcs \cup {NoDbc}]
    /\ app \in [Stmts -> [DescTypes -> AllDescs]]
    /\ descs \subseteq Descs
    /\ desc \in [AllDescs -> DescRecord]
    /\ stmt_list \in [Dbcs -> SUBSET Stmts]
    /\ desc_list \in [Dbcs -> SUBSET Descs]
    /\ copies \in Nat
    /\ badDeref \in BOOLEAN
    /\ born \in [Descs -> Dbcs \cup {NoDbc}]

(* DBC::stmt_list is what SQLDisconnect frees: it holds exactly the        *)
(* statements allocated on the connection and not yet dropped, so a        *)
(* disconnect neither leaks a statement nor drops one twice, and no        *)
(* statement outlives the connection it talks through.                     *)
StmtListsExact ==
    /\ \A c \in dbcs : stmt_list[c] = StmtsOf(c)
    /\ \A s \in LiveStmts : stmtDbc[s] \in connected

(* A connection waiting in the pool carries no statement of its previous   *)
(* user, and none can be opened on it without wakeup_connection, which     *)
(* resets the server session.  No explicit descriptor outlives the user it *)
(* was allocated for: one that exists belongs to a connection that has not *)
(* been reset or freed since, even if SQLCopyDesc has made it name another *)
(* connection, on whose list it is then not found when it is freed.        *)
PooledIsClean ==
    /\ \A c \in connected \cap need_to_wakeup : StmtsOf(c) = {}
    /\ \A d \in descs : born[d] # NoDbc

(* No handler ever follows a pointer to a freed handle.                    *)
NoBadDeref == ~badDeref

(* A live statement's application descriptors exist: freeing an explicit   *)
(* descriptor "resets all statements that it was associated with to their  *)
(* implicitly allocated descriptors" (handle.cc, my_SQLFreeDesc).          *)
AppDescsAlive ==
    \A s \in LiveStmts, t \in DescTypes : LiveDesc(app[s][t])

(* Everything an explicit descriptor lists exists and does use it, in the  *)
(* role the descriptor has taken, so my_SQLFreeDesc never writes to a freed*)
(* statement and never takes a statement off a descriptor it chose later.  *)
ListedUseIt ==
    \A d \in descs : \A s \in desc[d].list :
        /\ s \in LiveStmts
        /\ desc[d].dtype \in DescTypes
        /\ app[s][desc[d].dtype] = d

(* The other direction: a statement is on the list of the explicit         *)
(* descriptor it uses, in the role the descriptor has taken, and both      *)
(* belong to one connection.                                               *)
UsersAreListed ==
    \A s \in LiveStmts, t \in DescTypes :
        app[s][t] \in Descs => /\ s \in desc[app[s][t]].list
                               /\ desc[app[s][t]].dtype = t
                               /\ desc[app[s][t]].dbc = stmtDbc[s]

(* DBC::desc_list is what ~DBC deletes: exactly the explicit descriptors   *)
(* that exist on the connection, so none is leaked or deleted twice.       *)
DescListsExact ==
    /\ \A c \in dbcs : desc_list[c] = {d \in descs : desc[d].dbc = c}
    /\ \A d \in descs : desc[d].dbc \in dbcs

(* What the handlers walk along when handles are freed agrees in all       *)
(* directions: descriptors and their users, connections and descriptors.   *)
ListsAgree == UsersAreListed /\ ListedUseIt /\ DescListsExact

(* "can't free implicit descriptors" (test/my_desc.c, t_explicit_error):   *)
(* my_SQLFreeDesc goes by alloc_type, so an embedded descriptor has to keep*)
(* SQL_DESC_ALLOC_AUTO.                                                    *)
ImplicitStaysImplicit ==
    \A o \in ImpDescs : LiveDesc(o) => desc[o].alloc = "AUTO"

=============================================================================

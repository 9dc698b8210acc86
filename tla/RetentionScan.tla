--------------------------- MODULE RetentionScan ---------------------------
(***************************************************************************)
(* The health probe's scan for overdue rows (retention SLO 1). A row of    *)
(* private_memories is visible only to a connection whose app.project_id   *)
(* names its tenant, unless the role bypasses row security; the probe sets *)
(* it for one tenant after the other, in a transaction each, and adds up.  *)
(* Rows become overdue or are reinforced while it runs, and a tenant no    *)
(* enumerable table names stays out of its sight.                          *)
(***************************************************************************)
EXTENDS Integers, FiniteSets

CONSTANTS Projects,   \* tenants with rows in private_memories
          Listed,     \* those that _TENANT_SOURCES_SQL names
          NoTenant,     \* app.project_id is not set
          MaxFlips    \* bound on rows that change

\* The enumeration is a finite answer; the name the self-test sets is a string.
ASSUME ScanAssumption == IsFiniteSet(Listed) /\ NoTenant # "probe"

VARIABLES overdue,    \* projects with an overdue row
          conn,       \* autocommit, bypass: the connection's mode and role
          ident,      \* app.project_id on the connection
          scan,       \* the scan: pc, todo, total
          always,     \* projects overdue at every moment since the scan began
          ever,       \* projects overdue at some moment since the scan began
          flips

rsVars == <<overdue, conn, ident, scan, always, ever, flips>>

NoScan == [pc |-> "idle", todo |-> {}, total |-> 0]

-----------------------------------------------------------------------------
\* SET LOCAL: without a transaction it has no effect.
SetLocal(p) == IF conn.autocommit THEN ident ELSE p

\* rollback ends the transaction and the setting with it.
RolledBack(setting) == NoTenant

\* What the policies let the connection see of the overdue rows.
Visible(who) == IF conn.bypass THEN overdue ELSE overdue \cap {who}

\* Without WHERE project_id: a bypassing role counts the table for each tenant.
CountUnscoped(p) == Cardinality(Visible(SetLocal(p)))

\* The aggregate of _tenant_scan_sql for one tenant.
CountFor(p) == Cardinality(Visible(SetLocal(p)) \cap {p})

\* _assert_transaction_local_tenant_setting: the setting takes, and the
\* rollback undoes it.
SettingWorks == SetLocal("probe") = "probe" /\ RolledBack("probe") = NoTenant

\* check_no_overdue_active_rows begins; it raises when the setting does not work.
BeginScan ==
  /\ scan.pc = "idle"
  /\ scan' = IF SettingWorks THEN [pc |-> "tenants", todo |-> Listed, total |-> 0]
                             ELSE [NoScan EXCEPT !.pc = "raised"]
  /\ always' = overdue /\ ever' = overdue
  /\ UNCHANGED <<overdue, conn, ident, flips>>

\* One tenant: set the identity and count.
CountTenant(p) ==
  /\ scan.pc = "tenants" /\ p \in scan.todo
  /\ scan' = [scan EXCEPT !.pc = "rollback", !.todo = @ \ {p}, !.total = @ + CountFor(p)]
  /\ ident' = SetLocal(p)
  /\ UNCHANGED <<overdue, conn, always, ever, flips>>

\* conn.rollback() after each tenant.
RollbackTenant ==
  /\ scan.pc = "rollback"
  /\ ident' = RolledBack(ident)
  /\ scan' = [scan EXCEPT !.pc = "tenants"]
  /\ UNCHANGED <<overdue, conn, always, ever, flips>>

EndScan ==
  /\ scan.pc = "tenants" /\ scan.todo = {}
  /\ scan' = [scan EXCEPT !.pc = "done"]
  /\ UNCHANGED <<overdue, conn, ident, always, ever, flips>>

\* The answer is given; the connection goes back to the pool.
ScanAnswer ==
  /\ scan.pc \in {"done", "raised"}
  /\ scan' = NoScan
  /\ always' = {} /\ ever' = {}
  /\ UNCHANGED <<overdue, conn, ident, flips>>

\* A row of p becomes overdue, or its last overdue row is reinforced.
Flip(p) ==
  /\ flips < MaxFlips
  /\ flips' = flips + 1
  /\ overdue' = IF p \in overdue THEN overdue \ {p} ELSE overdue \cup {p}
  /\ always' = always \cap overdue'
  /\ ever' = IF scan.pc = "idle" THEN ever ELSE ever \cup overdue'
  /\ UNCHANGED <<conn, ident, scan>>

-----------------------------------------------------------------------------
RsInit ==
  /\ overdue \in SUBSET Projects
  /\ conn \in [autocommit : BOOLEAN, bypass : BOOLEAN]
  /\ ident = NoTenant /\ scan = NoScan /\ always = {} /\ ever = {} /\ flips = 0

RsNext ==
  \/ BeginScan \/ RollbackTenant \/ EndScan \/ ScanAnswer
  \/ \E p \in Projects : CountTenant(p) \/ Flip(p)

RsSpec == RsInit /\ [][RsNext]_rsVars

-----------------------------------------------------------------------------
(* Properties *)

\* The verdict is about the rows: a finished scan counted every listed project
\* that was overdue all the time (no silent zero over real violations) and
\* nothing that was not overdue at some moment, whatever the role and the mode
\* of the connection.
ScanHonest ==
  (scan.pc = "done") =>
    /\ Cardinality(always \cap Listed) <= scan.total
    /\ scan.total <= Cardinality(ever \cap Listed)
=============================================================================

----------------------------- MODULE Installations -----------------------------
(***************************************************************************)
(* The GitHub App installations of a user: syncUserInstallations in        *)
(* api/src/github.ts, which every GitHub sign-in starts without waiting    *)
(* for it (endpoints/auth.ts) and every request of the New Project dialog  *)
(* repeats (endpoints/github.ts).                                          *)
(***************************************************************************)
EXTENDS Naturals, FiniteSets

CONSTANTS
  Users,           \* ids of users
  Installs,        \* installations of the GitHub App
  Personal,        \* those on a user's account and not on an organization's
  Syncs,           \* the syncs of an instance, numbered as they start
  MaxRows,         \* bound on the rows created
  MaxSyncFaults    \* bound on failures, renamed organizations and closed accounts

\* What is assumed of the constants, where the module is instantiated.
SyncsAssumption == MaxRows \in Nat /\ MaxSyncFaults \in Nat

VARIABLES
  users,           \* the rows of users
  renamed,         \* organizations that took another name
  rows,            \* github_installations
  links,           \* user_github_installations
  sync,            \* the runs of syncUserInstallations
  dialog,          \* what the dialog was last answered
  made, closed, syncFaults

instVars == <<users, renamed, rows, links, sync, dialog, made, closed, syncFaults>>

\* What GitHub says of an installation: its organization may have been renamed.
Listing == [inst : Installs, name : 0 .. 1]
Row == [id : 1 .. MaxRows, inst : Installs, name : 0 .. 1, creator : Users]
NoListing == [inst |-> 0, name |-> 0]
Idle == [at |-> "idle", user |-> 0, listed |-> {}, left |-> {},
         inst |-> NoListing, row |-> 0]

InstTypeOK ==
  /\ users \subseteq Users /\ renamed \subseteq Installs /\ rows \subseteq Row
  /\ links \subseteq (1 .. MaxRows) \X Users
  /\ DOMAIN sync = Syncs
  /\ \A s \in Syncs :
       /\ sync[s].at \in {"idle", "list", "find", "insert", "reread", "update", "check", "join",
                          "done", "thrown", "replied"}
       /\ sync[s].left \subseteq sync[s].listed /\ sync[s].listed \subseteq Listing
       /\ sync[s].inst \in Listing \cup {NoListing} /\ sync[s].row \in 0 .. MaxRows
       /\ sync[s].user \in Users \cup {0}
  /\ dialog \in {"closed", "list", "forbidden", "error"}
  /\ made \in 0 .. MaxRows /\ closed \in BOOLEAN /\ syncFaults \in 0 .. MaxSyncFaults

InstInit ==
  /\ users = Users /\ renamed = {} /\ rows = {} /\ links = {} /\ sync = [s \in Syncs |-> Idle]
  /\ dialog = "closed" /\ made = 0 /\ closed = FALSE /\ syncFaults = 0

SyncFault == syncFaults < MaxSyncFaults /\ syncFaults' = syncFaults + 1
Goes(s, at) == sync' = [sync EXCEPT ![s].at = at]
Throws(s) == sync' = [sync EXCEPT ![s] = [Idle EXCEPT !.at = "thrown"]]
Known(i) == {r \in rows : r.inst = i.inst}

\* The callback of a sign-in, without awaiting it, or the dialog's request for the
\* organizations, or for the repositories of one.
Starts(s, user) ==
  /\ sync[s].at = "idle" /\ \A o \in Syncs : o < s => sync[o].at # "idle"
  /\ user \in users
  /\ sync' = [sync EXCEPT ![s] = [Idle EXCEPT !.at = "list", !.user = user]]
  /\ UNCHANGED <<users, renamed, rows, links, dialog, made, closed, syncFaults>>

\* GitHub lists what this user may see at this moment; the call may fail.
Lists(s) ==
  /\ sync[s].at = "list"
  /\ LET now == {[inst |-> i, name |-> IF i \in renamed THEN 1 ELSE 0] : i \in Installs}
     IN \/ /\ \E some \in SUBSET now :
                sync' = [sync EXCEPT ![s].at = "find", ![s].listed = some, ![s].left = some]
           /\ UNCHANGED syncFaults
        \/ Throws(s) /\ SyncFault
  /\ UNCHANGED <<users, renamed, rows, links, dialog, made, closed>>

Takes(s, i, at, row) ==
  sync' = [sync EXCEPT ![s].at = at, ![s].inst = i, ![s].row = row, ![s].left = @ \ {i}]

\* A sync that takes an installation whose row is up to date for one that is linked.
FindsUnlinked(s) ==
  /\ sync[s].at = "find"
  /\ \E i \in {x \in sync[s].left : \A y \in sync[s].left : x.inst <= y.inst} :
       \/ Known(i) = {} /\ Takes(s, i, "insert", 0)
       \/ \E r \in Known(i) : Takes(s, i, IF r.name # i.name THEN "update" ELSE "find", r.id)
  /\ UNCHANGED <<users, renamed, rows, links, dialog, made, closed, syncFaults>>

\* findOneBy: nothing keeps two rows of one installation apart, and any of them is found.
Finds(s) ==
  /\ sync[s].at = "find"
  /\ \E i \in {x \in sync[s].left : \A y \in sync[s].left : x.inst <= y.inst} :
       \/ Known(i) = {} /\ Takes(s, i, "insert", 0)
       \/ \E r \in Known(i) : Takes(s, i, IF r.name # i.name THEN "update" ELSE "check", r.id)
  /\ UNCHANGED <<users, renamed, rows, links, dialog, made, closed, syncFaults>>

Inserts(s) ==
  /\ sync[s].at = "insert" /\ made < MaxRows
  /\ IF sync[s].user \in users
     THEN /\ made' = made + 1 /\ Goes(s, "reread")
          /\ rows' = rows \cup {[id |-> made', inst |-> sync[s].inst.inst,
                                 name |-> sync[s].inst.name, creator |-> sync[s].user]}
     ELSE Throws(s) /\ UNCHANGED <<made, rows>>
  /\ UNCHANGED <<users, renamed, links, dialog, closed, syncFaults>>

Rereads(s) ==
  /\ sync[s].at = "reread"
  /\ \/ Known(sync[s].inst) = {} /\ Throws(s)
     \/ \E r \in Known(sync[s].inst) : sync' = [sync EXCEPT ![s].at = "check", ![s].row = r.id]
  /\ UNCHANGED <<users, renamed, rows, links, dialog, made, closed, syncFaults>>

\* The account's data has changed: the row found is saved.
Updates(s) ==
  /\ sync[s].at = "update" /\ Goes(s, "check")
  /\ rows' = {IF r.id = sync[s].row THEN [r EXCEPT !.name = sync[s].inst.name] ELSE r : r \in rows}
  /\ UNCHANGED <<users, renamed, links, dialog, made, closed, syncFaults>>

Linked(s) == <<sync[s].row, sync[s].user>> \in links

ChecksLink(s) ==
  /\ sync[s].at = "check" /\ Goes(s, IF Linked(s) THEN "find" ELSE "join")
  /\ UNCHANGED <<users, renamed, rows, links, dialog, made, closed, syncFaults>>

\* The primary key and the two foreign keys of the table may refuse the link.
Joins(s) ==
  /\ sync[s].at = "join"
  /\ IF ~Linked(s) /\ sync[s].user \in users /\ \E r \in rows : r.id = sync[s].row
     THEN links' = links \cup {<<sync[s].row, sync[s].user>>} /\ Goes(s, "find")
     ELSE Throws(s) /\ UNCHANGED links
  /\ UNCHANGED <<users, renamed, rows, dialog, made, closed, syncFaults>>

Finishes(s) ==
  /\ sync[s].at = "find" /\ sync[s].left = {}
  /\ sync' = [sync EXCEPT ![s].at = "done", ![s].inst = NoListing, ![s].row = 0]
  /\ UNCHANGED <<users, renamed, rows, links, dialog, made, closed, syncFaults>>

\* getInstallationsForUserId and getInstallationForOrg: both join the links of anybody.
InstallationsOf(user) ==
  {r \in rows : \E l \in links : l[1] = r.id /\ (l[2] = user \/ r.creator = user)}
InstallationForOrg(user, org) ==
  {r \in InstallationsOf(user) : [inst |-> r.inst, name |-> r.name] = org}

\* The organizations that were listed.
ListOrgs(s) ==
  /\ sync[s].at = "done"
  /\ dialog' = IF sync[s].listed = {} THEN "forbidden" ELSE "list"

\* The repositories of an organization, or the user's own.
ListRepos(s) ==
  /\ sync[s].at = "done"
  /\ \E org \in Listing :
       LET found == IF org.inst \in Personal
                    THEN {r \in InstallationsOf(sync[s].user) : r.inst \in Personal}
                    ELSE InstallationForOrg(sync[s].user, org)
       IN dialog' = IF found = {} THEN "forbidden" ELSE "list"

\* A sync a request awaits answers it, and fails it when it throws; nobody awaits that of a
\* sign-in, whose failure is logged.
Replies(s) ==
  /\ sync' = [sync EXCEPT ![s] = [Idle EXCEPT !.at = "replied"]]
  /\ \/ ListOrgs(s) \/ ListRepos(s)
     \/ sync[s].at \in {"done", "thrown"} /\ UNCHANGED dialog
     \/ sync[s].at = "thrown" /\ dialog' = "error"
  /\ UNCHANGED <<users, renamed, rows, links, made, closed, syncFaults>>

Renames(i) ==
  /\ i \notin renamed \cup Personal /\ renamed' = renamed \cup {i} /\ SyncFault
  /\ UNCHANGED <<users, rows, links, sync, dialog, made, closed>>

\* The row of the user goes, and by cascade the installations this user recorded first, with the
\* links everybody has to them.
Cascades(user) ==
  /\ user \in users /\ users' = users \ {user} /\ closed' = TRUE /\ SyncFault
  /\ rows' = {r \in rows : r.creator # user}
  /\ links' = {l \in links : l[2] # user /\ \E r \in rows' : r.id = l[1]}
  /\ UNCHANGED <<renamed, sync, dialog, made>>

InstNext ==
  \/ \E s \in Syncs :
       \/ \E user \in Users : Starts(s, user)
       \/ Lists(s) \/ Finds(s) \/ Inserts(s) \/ Rereads(s) \/ Updates(s) \/ ChecksLink(s)
       \/ Joins(s) \/ Finishes(s) \/ Replies(s)
  \/ \E i \in Installs : Renames(i)
  \/ \E user \in Users : Cascades(user)

InstSpec == InstInit /\ [][InstNext]_instVars

----------------------------------------------------------------------------
\* A sync that has not thrown has linked its user to every installation GitHub listed to it,
\* whatever another sync of the same or of another user did in between; only a closed account
\* takes the installations it recorded away from everybody (syncUserInstallations).
ListedAreLinked ==
  \A s \in Syncs : sync[s].at = "done" /\ ~closed =>
    \A i \in sync[s].listed : \E r \in rows : r.inst = i.inst /\ <<r.id, sync[s].user>> \in links
===============================================================================

------------------------------ MODULE Directory ------------------------------
(***************************************************************************)
(* internal/directory: the in-memory index of users and their roles.       *)
(*                                                                         *)
(* A directory is a function from normalised e-mail addresses to users, a  *)
(* user a record of a display name and roles.  The slice of role names is  *)
(* sorted and only ever searched, so it is the set of its elements.        *)
(***************************************************************************)

CONSTANT NormalizeEmail(_)   \* strings.ToLower of strings.TrimSpace

\* The directory before its first row.
Empty == [key \in {} |-> {}]

\* Mutant of AddRow: the user is made without its name.
AddRowNameless(dir, row) ==
    LET key == NormalizeEmail(row.email)
    IN  [k \in DOMAIN dir \union {key} |->
           IF k # key THEN dir[k]
           ELSE [roles |-> {row.role} \union (IF key \in DOMAIN dir THEN dir[key].roles ELSE {})]]

\* One turn of the loop of Load: the row is filed under the normalised address.
\* The first row of an address names its user; later rows only add a role.
AddRow(dir, row) ==
    LET key == NormalizeEmail(row.email)
    IN  [k \in DOMAIN dir \union {key} |->
           IF k # key THEN dir[k]
           ELSE IF key \in DOMAIN dir
             THEN [name |-> dir[key].name, roles |-> dir[key].roles \union {row.role}]
             ELSE [name |-> row.name, roles |-> {row.role}]]

\* HasRole, with the look-up of User in it.
HasRole(dir, email, role) ==
    /\ NormalizeEmail(email) \in DOMAIN dir
    /\ role \in dir[NormalizeEmail(email)].roles

=============================================================================

----------------------------- MODULE OfficePages -----------------------------
(***************************************************************************)
(* The organisers' pages: patrols, tasks of a station or a preset, the     *)
(* library of presets, the users, the event's details, and the session in  *)
(* which a page works.  They keep no state in common that the modules      *)
(* model, so a behaviour is one of one area and the others stay as they    *)
(* are at first.                                                           *)
(***************************************************************************)
EXTENDS PatrolEditors, TaskLists, EventSession, Accounts, PresetLibrary, EventForms

VARIABLE area

officeVars == <<area, patrolVars, taskVars, sessionVars, accountVars, libraryVars,
                formVars>>

\* The choices of an area that is not the one of the behaviour are fixed.
OfficeInit ==
    /\ area \in {"patrols", "tasks", "session", "accounts", "library", "event"}
    /\ PatrolsInit /\ TasksInit /\ SessionInit
    /\ AccountsInit /\ LibraryInit /\ FormsInit
    /\ area # "tasks" => owner = "station"
    /\ area # "session" => roles = [u \in User |-> CHOOSE es \in RoleSets : TRUE]
    /\ area = "accounts" =>
          /\ \A s \in {"pending", "active"} : \E u \in Account : accounts[u].status = s
          /\ \E m \in Manager : desk[m].level = "system"
    /\ area # "accounts" =>
          /\ \A u \in Account : accounts[u].status = "active"
          /\ \A m \in Manager : desk[m].level = "system"
    /\ area # "event" => \A e \in Outing : EventExists(e)
    /\ area # "library" => types = {} /\ \A p \in Preset : filed[p] = Absent

OfficeNext ==
    \/ /\ area = "patrols" /\ PatrolsNext
       /\ UNCHANGED <<area, taskVars, sessionVars, accountVars, libraryVars, formVars>>
    \/ /\ area = "tasks" /\ TasksNext
       /\ UNCHANGED <<area, patrolVars, sessionVars, accountVars, libraryVars, formVars>>
    \/ /\ area = "session" /\ SessionNext
       /\ UNCHANGED <<area, patrolVars, taskVars, accountVars, libraryVars, formVars>>
    \/ /\ area = "accounts" /\ AccountsNext
       /\ UNCHANGED <<area, patrolVars, taskVars, sessionVars, libraryVars, formVars>>
    \/ /\ area = "library" /\ LibraryNext
       /\ UNCHANGED <<area, patrolVars, taskVars, sessionVars, accountVars, formVars>>
    \/ /\ area = "event" /\ FormsNext
       /\ UNCHANGED <<area, patrolVars, taskVars, sessionVars, accountVars, libraryVars>>

OfficeSpec == OfficeInit /\ [][OfficeNext]_officeVars

\* Every page's state, the rows behind it and the requests in flight are of
\* their types.
OfficeTypeOK ==
    CASE area = "patrols"  -> PatrolsTypeOK
      [] area = "tasks"    -> TasksTypeOK
      [] area = "session"  -> SessionTypeOK
      [] area = "accounts" -> AccountsTypeOK
      [] area = "library"  -> LibraryTypeOK
      [] area = "event"    -> FormsTypeOK

=============================================================================

--------------------------- MODULE WindowProfiles ---------------------------
(***************************************************************************)
(* The server profiles of the Qt clients: the configuration in memory and  *)
(* in the file (clientconfig.cpp), the window's selector and its fields    *)
(* (mainwindow.cpp), and the settings dialog, which works on a copy        *)
(* (settingsdialog.cpp).  All three hold what a profile says, and none is  *)
(* the master.                                                             *)
(*                                                                         *)
(* The two Qt clients have the same code here; on Windows the hotkeys of   *)
(* the system are added to the shortcuts of the window.                    *)
(*                                                                         *)
(* Handlers are steps of one event loop; while the dialog is open only it, *)
(* the tray, the hotkeys and the connection have events.  A profile is its *)
(* id, its text (server, user and certificate) and whether it has a        *)
(* password, which no file keeps.  The connection is what GuiConnection    *)
(* promises of it.                                                         *)
(***************************************************************************)
EXTENDS Integers, SequencesExt

CONSTANTS
  Text,         \* what a profile may say, "" in a new one
  MaxProfiles,  \* bound: profiles that are ever made
  MaxEdits      \* bound: what the user types, adds and removes

VARIABLES
  file,        \* the configuration on disk, or None
  config,      \* appConfig
  list, shown, \* the ids in the selector and the place of the one it shows; 0 is none
  fields,      \* what the fields of the window say
  dialog,      \* the settings dialog, or None
  requested,   \* connectionRequested
  online,      \* the client is authenticated
  made,        \* how many ids were generated
  given,       \* the fields at the click on connect
  changed,     \* whether the user has changed or left the profile since then
  edits

window == <<config, list, shown, fields>>
connection == <<requested, online, given>>
vars == <<file, window, dialog, connection, made, changed, edits>>

None == [none |-> TRUE]

\* defaultProfile
Blank == [text |-> "", pass |-> FALSE]
Profile(id, says) == [id |-> id, text |-> says.text, pass |-> says.pass]
Says(profile) == [text |-> profile.text, pass |-> profile.pass]

\* createDefaultConfig
Default(id) == [profiles |-> <<Profile(id, Blank)>>, selected |-> id, last |-> 0]

\* load: save() replaces the file as a whole, so that it is there or it is not
Loaded == IF file = None THEN Default(1) ELSE file

Ids(profiles) == [i \in DOMAIN profiles |-> profiles[i].id]
Running == list # << >>
Modal == dialog # None
ShownId == list[shown]
Edit == edits < MaxEdits /\ edits' = edits + 1

-----------------------------------------------------------------------------
\* findProfileById, as a place; 0 when there is none
PlaceOf(id, ids) == IF Contains(ids, id) THEN SelectInSeq(ids, LAMBDA x : x = id) ELSE 0

\* syncProfileFromUi: the fields go to the profile the selector shows
Synced(c) ==
  LET i == PlaceOf(ShownId, Ids(c.profiles))
  IN IF i = 0 THEN c ELSE [c EXCEPT !.profiles[i] = Profile(ShownId, fields)]

\* profileToJson
WithoutPassword(profile) == [profile EXCEPT !.pass = FALSE]

\* what save() leaves, unless it fails: the file is replaced as a whole
Stored(c) == [c EXCEPT !.profiles = [i \in DOMAIN @ |-> WithoutPassword(@[i])]]

\* saveSettings: the window's fields and selection win over what c says
Saved(c) ==
  LET s == Synced(c)
  IN IF PlaceOf(ShownId, Ids(c.profiles)) = 0 THEN s ELSE [s EXCEPT !.selected = ShownId]

SaveSettings(c) ==
  /\ config' = Saved(c)
  /\ file' \in {Stored(Saved(c)), file}

\* onProfileChanged: the fields are filled from the profile
Shows(c, i) ==
  /\ shown' = i
  /\ fields' = Says(c.profiles[i])
  /\ config' = [c EXCEPT !.selected = c.profiles[i].id]

\* plausible slip: the selector is filled again and stays at its first entry
ApplyConfigToUi_First(c, id) ==
  /\ list' = Ids(c.profiles)
  /\ Shows(c, 1)

\* selectProfileById: the first profile when the id is unknown
SelectProfileById(c, id) ==
  LET i == PlaceOf(id, Ids(c.profiles)) IN Shows(c, IF i = 0 THEN 1 ELSE i)

\* applyConfigToUi with updateProfileSelector
ApplyConfigToUi(c, id) ==
  /\ list' = Ids(c.profiles)
  /\ SelectProfileById(c, id)

\* performAutoConnectIfNeeded: an autostarted client shows the profile that was connected
\* last.  That it then clicks on connect is ClickConnect.
Preferred(c, autostart) == IF autostart /\ c.last # 0 THEN c.last ELSE c.selected

\* MainWindow, with loadSettings
Start(autostart) ==
  /\ ~Running
  /\ ApplyConfigToUi(Loaded, Preferred(Loaded, autostart))
  /\ made' = IF made = 0 THEN 1 ELSE made
  /\ UNCHANGED <<file, dialog, connection, changed, edits>>

Type(says) ==
  /\ Running /\ ~Modal /\ Edit
  /\ fields' = says
  /\ changed' = TRUE
  /\ UNCHANGED <<file, config, list, shown, dialog, connection, made>>

\* onProfileChanged after a choice in the selector: what was typed and not saved is lost
Pick(i) ==
  /\ Running /\ ~Modal /\ i # shown
  /\ Shows(config, i)
  /\ changed' = TRUE
  /\ UNCHANGED <<file, list, dialog, connection, made, edits>>

\* switchToNextProfile, which saves as well; the menu of the tray and the hotkey have it
\* also while the dialog is open
SwitchToNext ==
  LET i == (shown % Len(list)) + 1
      c == [config EXCEPT !.selected = config.profiles[i].id]
  IN /\ Running /\ Len(list) > 1
     /\ shown' = i /\ fields' = Says(config.profiles[i])
     /\ config' = c
     /\ file' \in {Stored(c), file}
     /\ changed' = TRUE
     /\ UNCHANGED <<list, dialog, connection, made, edits>>

\* onToggleColorScheme, onBrowseReceiveDirectory, onBrowseCaCertificate
SaveNow ==
  /\ Running /\ ~Modal
  /\ SaveSettings(config)
  /\ UNCHANGED <<list, shown, fields, dialog, connection, made, changed, edits>>

\* onConnectClicked: without credentials or a directory it has still taken the fields over
ClickConnect ==
  /\ Running /\ ~Modal /\ ~requested
  /\ \/ /\ fields.text # "" /\ fields.pass
        /\ SaveSettings(Synced(config))
        /\ requested' = TRUE /\ given' = fields /\ changed' = FALSE
     \/ /\ config' = Synced(config)
        /\ UNCHANGED <<file, requested, given, changed>>
  /\ UNCHANGED <<list, shown, fields, dialog, online, made, edits>>

ClickDisconnect ==
  /\ Running /\ ~Modal /\ requested
  /\ requested' = FALSE /\ online' = FALSE
  /\ UNCHANGED <<file, window, dialog, given, made, changed, edits>>

\* handleConnected sends the credentials in the fields, and handleAuthResponse with
\* status ok takes the profile that is shown for the one that is connected
Authenticated ==
  /\ requested /\ ~online
  /\ online' = TRUE
  /\ SaveSettings([config EXCEPT !.last = IF PlaceOf(ShownId, Ids(config.profiles)) = 0
                                          THEN @ ELSE ShownId])
  /\ UNCHANGED <<list, shown, fields, dialog, requested, given, made, changed, edits>>

\* handleAuthResponse, otherwise
Rejected ==
  /\ requested /\ ~online
  /\ requested' = FALSE
  /\ UNCHANGED <<file, window, dialog, online, given, made, changed, edits>>

\* handleDisconnected: the next attempt goes to the server of the last click
ConnectionLost ==
  /\ online /\ online' = FALSE
  /\ UNCHANGED <<file, window, dialog, requested, given, made, changed, edits>>

-----------------------------------------------------------------------------
(* SettingsDialog.  touched has the profiles the user has typed in, and those that came *)
(* to the place of a removed one.                                                       *)

\* saveEditorToProfile
EditorSaved(d, i) ==
  IF i \notin DOMAIN d.profiles THEN d
  ELSE [d EXCEPT !.profiles[i] = Profile(@.id, d.editor), !.selected = d.profiles[i].id]

\* loadProfileToEditor
EditorLoaded(d, i) ==
  IF i \notin DOMAIN d.profiles THEN d ELSE [d EXCEPT !.editor = Says(d.profiles[i])]

\* plausible slip: the editor is saved to the row that is now current
RowSelected_Current(d, i) ==
  EditorLoaded([EditorSaved(d, i) EXCEPT !.row = i, !.lastRow = i], i)

\* onProfileSelectionChanged: the editor is saved to lastProfileIndex_, then filled anew
RowSelected(d, i) ==
  EditorLoaded([EditorSaved(d, d.lastRow) EXCEPT !.row = i, !.lastRow = i], i)

\* populateProfiles: clearing the list signals that no row is selected
Repopulated(d, i) == RowSelected(RowSelected(d, 0), i)

\* ensureProfileSelection
FirstRow(c) == LET i == PlaceOf(c.selected, Ids(c.profiles)) IN IF i = 0 THEN 1 ELSE i

\* onOpenSettings up to exec(): what the window shows has been taken over, but is not
\* saved
OpenSettings ==
  LET c == Synced(config)
      row == FirstRow(c)
  IN /\ Running /\ ~Modal
     /\ config' = c
     /\ dialog' = [profiles |-> c.profiles, selected |-> c.selected, last |-> c.last,
                   row |-> row, lastRow |-> row, editor |-> Says(c.profiles[row]),
                   touched |-> {}]
     /\ UNCHANGED <<file, list, shown, fields, connection, made, changed, edits>>

InDialog(d) ==
  /\ dialog' = d
  /\ UNCHANGED <<file, window, connection, changed>>

SelectRow(i) ==
  /\ Modal /\ i \in DOMAIN dialog.profiles /\ i # dialog.row
  /\ InDialog(RowSelected(dialog, i))
  /\ UNCHANGED <<made, edits>>

\* onFieldEdited
EditField(says) ==
  /\ Modal /\ Edit
  /\ InDialog(EditorSaved([dialog EXCEPT !.editor = says,
                             !.touched = @ \cup {dialog.profiles[dialog.row].id}], dialog.row))
  /\ UNCHANGED made

\* onAddProfile
AddProfile ==
  LET d == [EditorSaved(dialog, dialog.row) EXCEPT
              !.profiles = Append(@, Profile(made + 1, Blank))]
  IN /\ Modal /\ made < MaxProfiles /\ Edit
     /\ made' = made + 1
     /\ InDialog(Repopulated(d, Len(d.profiles)))

\* onRemoveProfile: the editor, which still has what the removed profile said, is saved
\* to the one that has come to its place
RemoveProfile ==
  LET i == dialog.row
      profiles == RemoveAt(dialog.profiles, i)
      next == IF i \in DOMAIN profiles THEN {profiles[i].id} ELSE {}
  IN /\ Modal /\ Len(dialog.profiles) > 1 /\ Edit
     /\ InDialog(Repopulated([dialog EXCEPT !.profiles = profiles,
                                            !.touched = @ \cup next],
                             IF i \in DOMAIN profiles THEN i ELSE Len(profiles)))
     /\ UNCHANGED made

\* what the dialog returns when it is accepted
Accepted ==
  LET d == EditorSaved(dialog, dialog.row)
  IN [profiles |-> d.profiles, selected |-> d.selected, last |-> d.last]

\* the rest of onOpenSettings: saved before it is shown, so that what the window says of
\* its profile, and which it shows, win over the dialog
Accept ==
  LET c == Saved(Accepted) IN
  /\ Modal
  /\ dialog' = None
  /\ file' \in {Stored(c), file}
  /\ ApplyConfigToUi(c, c.selected)
  /\ changed' = (changed \/ ~Contains(Ids(c.profiles), ShownId))
  /\ UNCHANGED <<connection, made, edits>>

Cancel ==
  /\ Modal /\ dialog' = None
  /\ UNCHANGED <<file, window, connection, made, changed, edits>>

\* the process ends, or is killed
Exit ==
  /\ Running
  /\ config' = None /\ list' = << >> /\ shown' = 0 /\ fields' = Blank /\ dialog' = None
  /\ requested' = FALSE /\ online' = FALSE
  /\ given' = Blank /\ changed' = FALSE
  /\ UNCHANGED <<file, made, edits>>

Init ==
  /\ file = None /\ config = None
  /\ list = << >> /\ shown = 0 /\ fields = Blank /\ dialog = None
  /\ requested = FALSE /\ online = FALSE /\ given = Blank /\ changed = FALSE
  /\ made = 0 /\ edits = 0

Next ==
  \/ \E autostart \in BOOLEAN : Start(autostart)
  \/ \E text \in Text : Type([text |-> text, pass |-> TRUE])
  \/ \E i \in DOMAIN list : Pick(i)
  \/ SwitchToNext \/ SaveNow \/ ClickConnect \/ ClickDisconnect
  \/ Authenticated \/ Rejected \/ ConnectionLost
  \/ OpenSettings \/ AddProfile \/ RemoveProfile \/ Accept \/ Cancel
  \/ \E i \in 1..MaxProfiles : SelectRow(i)
  \/ \E text \in Text : EditField([text |-> text, pass |-> TRUE])
  \/ Exit

Spec == Init /\ [][Next]_vars

-----------------------------------------------------------------------------
\* The settings dialog leaves alone what the user leaves alone in it: when it is accepted,
\* each profile that was neither typed in nor removed, nor came to the place of a removed
\* one, is what it was - whatever rows were selected, added and removed, and although the
\* connection saves the configuration under the open dialog.
UntouchedKept ==
  [][Accept =>
       \A i \in DOMAIN config.profiles :
         LET p == config.profiles[i] IN
         /\ Contains(Ids(dialog.profiles), p.id)
         /\ p.id \notin dialog.touched
         => Contains(config'.profiles, p)]_vars

\* As long as the user neither types nor chooses another profile nor removes the one that
\* is shown, every attempt of the client sends the credentials it was given at the click
\* on connect: handleConnected takes them from the fields again each time, and the
\* settings dialog and the saving of the configuration go over these fields.
SentAsGiven == requested /\ ~changed => fields = given

=============================================================================

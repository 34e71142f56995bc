---------------------------- MODULE MenuLifecycle ----------------------------
(***************************************************************************)
(* When the FloatingDamageMenu is open, and which settings it shows        *)
(* (FloatingDamage/main.cpp: MenuOpenCloseHandler, the message functions   *)
(* and ProcessMessage of FloatingDamageMenu, MessageCallback and the two   *)
(* handlers of the configuration menu).                                    *)
(*                                                                         *)
(* Nothing opens the menu at once.  The game opens and closes HUDMenu and  *)
(* FaderMenu by messages on one queue, tells the handler of each change,   *)
(* and the handler answers with messages for the FloatingDamageMenu on the *)
(* same queue.  The numbers travel through DamageQueue meanwhile.          *)
(*                                                                         *)
(* A setting is a version number: the ini file has the newest, LoadSettings*)
(* copies all of them into memory, the movie and the shader have a version *)
(* each.  "mod" stands for the settings of kMessage_UpdateModSettings,     *)
(* "color" for those of kMessage_UpdateColorSettings.                      *)
(***************************************************************************)
EXTENDS DamageQueue

CONSTANTS
  MovieLoads,      \* what LoadMovie may return
  MaxGameMessages, \* bound on the open and close messages of the game
  MaxEdits         \* bound on the edits of the ini file

ASSUME MovieLoadsAssumption == MovieLoads \subseteq BOOLEAN
ASSUME BoundsAssumption == MaxGameMessages \in Nat /\ MaxEdits \in Nat

VARIABLES
  messages,   \* the queue behind SendUIMessage
  sent,       \* open and close messages of the game so far
  hudOpen,    \* HUDMenu is open
  faderOpen,  \* FaderMenu is open
  inTable,    \* FloatingDamageMenu is in the menu table
  sink,       \* the handler listens to MenuOpenCloseEvent
  told,       \* the handler has seen the state the HUDMenu is in
  ini,        \* the versions in FloatingDamage.ini
  settings,   \* the versions in Settings
  due,        \* edits whose handler the configuration menu has yet to call
  movie,      \* the version of the mod settings in the movie
  shader      \* the version of the color settings in the shader target

menuOnly == <<messages, sent, hudOpen, faderOpen, inTable, sink, told>>
settingVars == <<ini, settings, due, movie, shader>>
menuVars == <<queueVars, menuOnly, settingVars>>

Groups == {"mod", "color"}
GameMenus == {"HUDMenu", "FaderMenu"}

Message == [menu : GameMenus, type : {"open", "close"}]
             \cup [menu : {"FloatingDamageMenu"}, type : {"open", "close"} \cup Groups]

ToFloatingDamage(type) == [menu |-> "FloatingDamageMenu", type |-> type]

MenuTypeOK ==
  /\ QueueTypeOK
  /\ messages \in Seq(Message)
  /\ sent \in Nat
  /\ hudOpen \in BOOLEAN /\ faderOpen \in BOOLEAN
  /\ inTable \in BOOLEAN /\ sink \in BOOLEAN /\ told \in BOOLEAN
  /\ ini \in [Groups -> Nat] /\ settings \in [Groups -> Nat]
  /\ due \subseteq Groups
  /\ movie \in Nat /\ shader \in Nat

MenuInit ==
  /\ QueueInit
  /\ messages = <<>> /\ sent = 0
  /\ hudOpen = FALSE /\ faderOpen = FALSE
  /\ inTable = FALSE /\ sink = FALSE /\ told = FALSE
  /\ ini = [g \in Groups |-> 0] /\ settings = [g \in Groups |-> 0]
  /\ due = {} /\ movie = 0 /\ shader = 0

-----------------------------------------------------------------------------
(* The game asks for HUDMenu or FaderMenu to open or close.                *)
GameSends(name, type) ==
  /\ sent < MaxGameMessages
  /\ sent' = sent + 1
  /\ messages' = Append(messages, [menu |-> name, type |-> type])
  /\ UNCHANGED <<queueVars, hudOpen, faderOpen, inTable, sink, told, settingVars>>

RegisterMenu == inTable' = TRUE

(* What the HUD did before the handler listened is not reported again.     *)
RegisterHandler == sink' = TRUE /\ told' = ~hudOpen

(* MessageCallback for kMessage_GameLoaded, which is sent once.            *)
GameLoaded ==
  /\ ~sink
  /\ RegisterMenu
  /\ RegisterHandler
  /\ UNCHANGED <<queueVars, messages, sent, hudOpen, faderOpen, settingVars>>

-----------------------------------------------------------------------------
(* An answer that opens the menu after any loading screen.                 *)
AnswerIgnoringHUD(name, isOpen) ==
  (IF name = "HUDMenu" THEN <<ToFloatingDamage(IF isOpen THEN "open" ELSE "close")>>
                       ELSE <<>>)
    \o (IF name = "FaderMenu" /\ ~isOpen /\ menu = "closed"
          THEN <<ToFloatingDamage("open")>> ELSE <<>>)

(* An answer to HUDMenu alone.                                             *)
AnswerWithoutFader(name, isOpen) ==
  IF name = "HUDMenu" THEN <<ToFloatingDamage(IF isOpen THEN "open" ELSE "close")>>
                      ELSE <<>>

(* MenuOpenCloseHandler::ReceiveEvent: the messages it sends.  FaderMenu   *)
(* covers the screen while the game loads; its end opens the menu for a    *)
(* HUD that was there before the handler listened.                         *)
Answer(name, isOpen) ==
  (IF name = "HUDMenu" THEN <<ToFloatingDamage(IF isOpen THEN "open" ELSE "close")>>
                       ELSE <<>>)
    \o (IF name = "FaderMenu" /\ ~isOpen /\ hudOpen /\ menu = "closed"
          THEN <<ToFloatingDamage("open")>> ELSE <<>>)

(* The game handles a message for one of its own menus, and dispatches a   *)
(* MenuOpenCloseEvent if the menu changed.                                 *)
GameMenuMessage ==
  /\ messages # <<>>
  /\ Head(messages).menu \in GameMenus
  /\ LET name == Head(messages).menu
         isOpen == Head(messages).type = "open"
         changed == isOpen # (IF name = "HUDMenu" THEN hudOpen ELSE faderOpen)
     IN /\ hudOpen' = IF name = "HUDMenu" THEN isOpen ELSE hudOpen
        /\ faderOpen' = IF name = "FaderMenu" THEN isOpen ELSE faderOpen
        /\ messages' = Tail(messages)
                         \o (IF sink /\ changed THEN Answer(name, isOpen) ELSE <<>>)
        /\ told' = \/ told
                   \/ /\ sink /\ changed
                      /\ name = "HUDMenu" \/ (~isOpen /\ hudOpen)
  /\ UNCHANGED <<queueVars, sent, inTable, sink, settingVars>>

-----------------------------------------------------------------------------
(* The head of the queue is a message of this type for the plugin's menu.  *)
Receives(type) ==
  messages # <<>> /\ Head(messages) = ToFloatingDamage(type) /\ messages' = Tail(messages)

(* kMessage_Open.  A new instance applies the color settings in its        *)
(* constructor; a menu the table does not have is not created.             *)
MenuOpens ==
  /\ Receives("open")
  /\ IF inTable
       THEN /\ HandleOpen
            /\ menu = "closed" => (menu' = "loaded") \in MovieLoads
            /\ shader' = IF menu = "closed" THEN settings["color"] ELSE shader
       ELSE UNCHANGED <<queueVars, shader>>
  /\ UNCHANGED <<sent, hudOpen, faderOpen, inTable, sink, told, ini, settings, due, movie>>

(* kMessage_Close; without an instance the message has no receiver.        *)
MenuCloses ==
  /\ Receives("close")
  /\ IF menu = "closed" THEN UNCHANGED queueVars ELSE HandleClose
  /\ UNCHANGED <<sent, hudOpen, faderOpen, inTable, sink, told, settingVars>>

(* A movie that does not ask for its settings.                             *)
MovieCreatedWithoutSettings ==
  /\ OnCodeObjCreate
  /\ UNCHANGED <<menuOnly, settingVars>>

(* onCodeObjCreate asks for the settings in memory (GetModSettings).       *)
MovieCreated ==
  /\ OnCodeObjCreate
  /\ movie' = settings["mod"]
  /\ UNCHANGED <<menuOnly, ini, settings, due, shader>>

(* The two settings messages push what is in memory when they are handled, *)
(* not when they are sent.  Without an instance they have no receiver;     *)
(* with one that has no movie the code dereferences a null pointer.        *)
ModSettingsArrive ==
  /\ Receives("mod")
  /\ menu # "blank"
  /\ movie' = IF menu = "closed" THEN movie ELSE settings["mod"]
  /\ UNCHANGED <<queueVars, sent, hudOpen, faderOpen, inTable, sink, told, ini, settings,
                 due, shader>>

ColorSettingsArrive ==
  /\ Receives("color")
  /\ menu # "blank"
  /\ shader' = IF menu = "closed" THEN shader ELSE settings["color"]
  /\ UNCHANGED <<queueVars, sent, hudOpen, faderOpen, inTable, sink, told, ini, settings,
                 due, movie>>

-----------------------------------------------------------------------------
(* The configuration menu writes a setting to the ini file ...             *)
EditSetting(g) ==
  /\ ini[g] < MaxEdits
  /\ ini' = [ini EXCEPT ![g] = @ + 1]
  /\ due' = due \cup {g}
  /\ UNCHANGED <<queueVars, menuOnly, settings, movie, shader>>

LoadSettings == settings' = ini

(* ... and calls onModSettingChanged or onColorSettingChanged.  Either one *)
(* loads every setting and announces its own group.                        *)
OnSettingChanged(g) ==
  /\ g \in due
  /\ due' = due \ {g}
  /\ LoadSettings
  /\ messages' = Append(messages, ToFloatingDamage(g))
  /\ UNCHANGED <<queueVars, sent, hudOpen, faderOpen, inTable, sink, told, ini, movie, shader>>

-----------------------------------------------------------------------------
Drawn == DrawEnter \/ DrawPop \/ DrawLeave

Handled ==
  \/ GameMenuMessage \/ MenuOpens \/ MenuCloses \/ ModSettingsArrive
  \/ ColorSettingsArrive

MenuNext ==
  \/ \E name \in GameMenus, type \in {"open", "close"} : GameSends(name, type)
  \/ GameLoaded
  \/ Handled
  \/ MovieCreated
  \/ \E g \in Groups : EditSetting(g) \/ OnSettingChanged(g)
  \/ (Register \/ Drawn) /\ UNCHANGED <<menuOnly, settingVars>>

MenuSpec == MenuInit /\ [][MenuNext]_menuVars

(* The user interface goes through its messages and finishes its frames,   *)
(* and a movie that was loaded is initialised.                             *)
MenuFairness ==
  /\ SF_menuVars(Handled)
  /\ SF_menuVars(MovieCreated)
  /\ WF_menuVars((DrawPop \/ DrawLeave) /\ UNCHANGED <<menuOnly, settingVars>>)

FairMenuSpec == MenuSpec /\ MenuFairness

-----------------------------------------------------------------------------
Pending(types) ==
  {i \in DOMAIN messages : messages[i].menu = "FloatingDamageMenu" /\ messages[i].type \in types}

(* What the menu will be when the messages under way are handled.          *)
WillBeOpen ==
  LET opening == Pending({"open", "close"})
  IN IF opening = {} THEN menu # "closed"
     ELSE \E i \in opening : messages[i].type = "open" /\ \A j \in opening : j <= i

(* Once the handler has learned whether the HUD is open, from the HUD or   *)
(* from the end of a loading screen, the menu is on its way to where the   *)
(* HUD is, through any sequence of openings, closings and loading screens. *)
MenuFollowsHUD == told => (WillBeOpen <=> hudOpen)

(* An open movie has the settings of the ini file, unless an edit is still *)
(* to be announced or its message to arrive: no edit is lost because the   *)
(* menu was closed, loading or reopening when it was announced.            *)
ModSettingsReachMovie ==
  menu = "ready" /\ "mod" \notin due /\ Pending({"mod"}) = {} => movie = ini["mod"]

(* The same for the colors and the shader target of the instance.          *)
ColorSettingsReachShader ==
  menu \in {"loaded", "ready"} /\ "color" \notin due /\ Pending({"color"}) = {}
    => shader = ini["color"]

(* FloatingDamageMenu: once no message is on its way, movie and shader     *)
(* have the settings of the ini file, whenever they were edited.           *)
SettingsReachMenu == MenuTypeOK /\ ModSettingsReachMovie /\ ColorSettingsReachShader

(* When the HUD has come up, the player gets a menu that accepts numbers,  *)
(* unless the HUD goes away again; also for a HUD that was there before    *)
(* the handler, from the end of the loading screen on.                     *)
HUDBringsMenu ==
  sink /\ told /\ hudOpen ~> menu = "ready" \/ ~hudOpen
=============================================================================

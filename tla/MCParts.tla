------------------------------ MODULE MCParts ------------------------------
(***************************************************************************)
(* Instances for TLC of parts that share no state, for their safety (the   *)
(* login's liveness is MCLive's).  One run takes them side by side: a      *)
(* behaviour is one of one part, the others rest in an initial state.      *)
(***************************************************************************)
EXTENDS Uploads, Export, Gps, Hdmi, Outputs, Form, Lists, ToolRunnerHistory,
        Login

VARIABLE part    \* the part that moves

partsVars == <<part, uploadVars, exportVars, gpsVars, hdmiVars, outVars, formVars, listVars, hvars,
              loginVars>>

PartsInit ==
  /\ part \in {"upload", "export", "gps", "hdmi", "outputs", "form", "lists", "tool", "login"}
  /\ UploadsInit /\ ExportInit /\ GpsInit /\ LoginInit
  /\ HdmiInit    /\ (part = "hdmi"    \/ ~overlap)
  /\ OutputsInit /\ (part = "outputs" \/ (outEnv = {} /\ resultsFile = "tool's"))
  /\ FormInit    /\ (part = "form"    \/ fields = <<>>)
  /\ ListsInit   /\ (part = "lists"   \/ menu.items + history.runs + lines.total + lines.maxLen = 0)
  /\ HInit       /\ (part = "tool"    \/ (env = {} /\ spec = "plain"))

\* A step of one part, and who rests.
Alone(name, next, rest) == part = name /\ next /\ UNCHANGED <<part, rest>>

PartsNext ==
  \/ Alone("upload", UploadsNext,
           <<exportVars, gpsVars, hdmiVars, outVars, formVars, listVars, hvars, loginVars>>)
  \/ Alone("export", ExportNext,
           <<uploadVars, gpsVars, hdmiVars, outVars, formVars, listVars, hvars, loginVars>>)
  \/ Alone("gps", GpsNext,
           <<uploadVars, exportVars, hdmiVars, outVars, formVars, listVars, hvars, loginVars>>)
  \/ Alone("hdmi", HdmiNext,
           <<uploadVars, exportVars, gpsVars, outVars, formVars, listVars, hvars, loginVars>>)
  \/ Alone("outputs", OutputsNext,
           <<uploadVars, exportVars, gpsVars, hdmiVars, formVars, listVars, hvars, loginVars>>)
  \/ Alone("form", FormNext,
           <<uploadVars, exportVars, gpsVars, hdmiVars, outVars, listVars, hvars, loginVars>>)
  \/ Alone("lists", ListsNext,
           <<uploadVars, exportVars, gpsVars, hdmiVars, outVars, formVars, hvars, loginVars>>)
  \/ Alone("tool", HNext,
           <<uploadVars, exportVars, gpsVars, hdmiVars, outVars, formVars, listVars, loginVars>>)
  \/ Alone("login", LoginNext,
           <<uploadVars, exportVars, gpsVars, hdmiVars, outVars, formVars, listVars, hvars>>)

PartsSpec == PartsInit /\ [][PartsNext]_partsVars

\* The types of all parts but the login, whose types MCLive checks.
PartsTypeOK == /\ UploadsTypeOK /\ ExportTypeOK /\ GpsTypeOK /\ HdmiTypeOK
               /\ OutputsTypeOK /\ FormTypeOK /\ ListsTypeOK /\ HTypeOK

----------------------------------------------------------------------------
(* The values of the constants.                                            *)

HomeRoot == <<"home">>
SomeDirs == {<<"home">>, <<"etc">>, <<"media">>}
\* A link below the root leads to media, none to etc.
UsbLink  == <<"home", "usb">> :> <<"media">>
SomeRels == {<<>>, <<"..", "etc">>, <<"usb">>}

NoteField(rows)         == [type |-> "note", lines |-> rows, required |-> FALSE,
                            default |-> <<>>, on |-> FALSE]
TextField(needed, of)   == [type |-> "text", lines |-> 0, required |-> needed,
                            default |-> of, on |-> FALSE]
CheckField(checked)     == [type |-> "checkbox", lines |-> 0, required |-> FALSE,
                            default |-> <<>>, on |-> checked]

\* No fields, a note alone, and a form that is higher than the LCD.
ThreeForms == {<<>>, <<NoteField(1)>>,
               <<NoteField(2), TextField(TRUE, <<>>), NoteField(3), CheckField(TRUE),
                 TextField(FALSE, <<"f">>)>>}
TwoRunes == [r \in {"f", " "} |-> IF r = "f" THEN "Up" ELSE "None"]

CONSTANTS t1, t2, v1, v2   \* threads and input maps of a tool, as model values

TwoThreads == {t1, t2}
TwoVals    == {v1, v2}
SomePost   == {v1}
\* Nothing, each condition by itself, and all with and without "blind".
MostEnvs   == {{}, Conditions, Conditions \ {"blind"}} \cup {{c} : c \in Conditions}

\* Whoever acts in a part is one of two alike, and the parts that rest are in
\* a state that does not tell them apart.
Actors == {Senders, Exporters, Callers, TwoThreads, Browsers}
Other  == [x \in UNION Actors |-> CHOOSE y \in UNION Actors :
                                     y # x /\ \E S \in Actors : {x, y} \subseteq S]
ActorSymmetry == {[x \in UNION Actors |-> IF swapped THEN Other[x] ELSE x] :
                    swapped \in BOOLEAN}
============================================================================

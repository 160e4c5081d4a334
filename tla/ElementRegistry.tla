---------------------------- MODULE ElementRegistry ----------------------------
(***************************************************************************)
(* How the plugin makes an element of every codec whose DLL is installed   *)
(* (ext/pitfdll/pitfdll.c and the register and base_init functions of the  *)
(* elements).  A table is a file's array of codecs; a class takes its      *)
(* entry from its type if it is a decoder's, and from the file's static    *)
(* tmp, which the loop sets before it registers, if it is an encoder's.    *)
(***************************************************************************)
EXTENDS Naturals, Sequences, FiniteSets

CONSTANTS Installs,  \* the DLLs that may be in WIN32_PATH: sets of names
          MaxLate,   \* bound of the classes that are made late
          None

VARIABLES
  installed,   \* DLLs that are in WIN32_PATH
  cached,      \* the registry knows the elements from an earlier process
  at,          \* the loop is at this codec of this table: <<table, codec>>
  tmp,         \* table -> its static tmp
  type,        \* name -> the codec a type of that name was made for, None if there is none
  elements,    \* names gst_element_register accepted
  class        \* name -> its class: [entry, compressed, raw], None until base_init

regVars == <<installed, cached, at, tmp, type, elements, class>>

\* A codec's compressed caps are known by its DLL and version; raw is the other side, None
\* when the entry has NULL for it.
Codec(name, number, raw) == [dll |-> name, version |-> number, raw |-> raw]

dshow_vdec == [form |-> "dshowdec_%sv%d", encoder |-> FALSE,
               codecs |-> <<Codec("ir50_32", 5, None), Codec("ir41_32", 4, None)>>]
dmo_vdec == [form |-> "dmodec_%sv%d", encoder |-> FALSE,
             codecs |-> <<Codec("wmv9dmod", 3, "YUY2"), Codec("wmvdmod", 1, "YUY2"), Codec("wmvdmod", 2, "YUY2"),
                          Codec("wmvdmod", 3, "YUY2"), Codec("wvc1dmod", 3, "YUY2")>>]
dmo_venc == [form |-> "dmoenc_%sv%d", encoder |-> TRUE,
             codecs |-> <<Codec("wmvdmoe2", 1, "I420"), Codec("wmvdmoe2", 2, "I420"), Codec("wmvdmoe2", 3, "I420")>>]
dmo_adec == [form |-> "dmodec_%sv%da", encoder |-> FALSE,
             codecs |-> <<Codec("wmadmod", 1, "up to 16"), Codec("wmadmod", 2, "up to 16"),
                          Codec("wmadmod", 3, "24"), Codec("wmspdmod", 1, "16")>>]
dmo_aenc == [form |-> "dmoenc_%sv%d", encoder |-> TRUE,
             codecs |-> <<Codec("wmadmoe", 1, "16"), Codec("wmadmoe", 2, "16"),
                          Codec("wmadmoe", 3, "24"), Codec("wmspdmoe", 1, "mono 16")>>]
\* One element, that the loop of the others models as well.
qt_adec == [form |-> "qtadec_bin", encoder |-> FALSE, codecs |-> <<Codec("qtmlClient", 0, None)>>]

\* In the order of plugin_init; that of dshow_adec.c is empty.
Tables == <<dshow_vdec, dmo_vdec, dmo_venc, dmo_adec, dmo_aenc, qt_adec>>

CodecsOf(t) == {Tables[t].codecs[n] : n \in DOMAIN Tables[t].codecs}
Dlls == UNION {{c.dll : c \in CodecsOf(t)} : t \in DOMAIN Tables}

Name(t, c) == <<Tables[t].form, c.dll, c.version>>
Names == UNION {{Name(t, c) : c \in CodecsOf(t)} : t \in DOMAIN Tables}

Init ==
  /\ installed \in Installs /\ cached \in BOOLEAN
  /\ at = <<1, 1>>
  /\ tmp = [t \in DOMAIN Tables |-> None]
  /\ type = [n \in Names |-> None] /\ elements = {}
  /\ class = [n \in Names |-> None]

More == at[1] \in DOMAIN Tables
Here == Tables[at[1]].codecs[at[2]]
NextTable == <<at[1] + 1, 1>>
NextCodec == IF at[2] < Len(Tables[at[1]].codecs) THEN <<at[1], at[2] + 1>> ELSE NextTable

\* g_file_test fails: the loop continues.
Skip ==
  /\ More /\ Here.dll \notin installed
  /\ at' = NextCodec
  /\ UNCHANGED <<installed, cached, tmp, type, elements, class>>

\* The pad templates base_init makes from an entry: the compressed side with ranges for
\* what caps must tell, and the raw side.
Compressed(e, fields) == [dll |-> e.dll, version |-> e.version, fields |-> fields]
Raw(e, default) == IF e.raw = None THEN default ELSE e.raw
ClassOf(e, compressed, raw) == [entry |-> e, compressed |-> compressed, raw |-> raw]

dshow_videodec(e) == ClassOf(e, Compressed(e, {"width", "height", "framerate"}), Raw(e, "rgb or yuv"))
dmo_videodec(e) == ClassOf(e, Compressed(e, {"width", "height", "framerate"}), Raw(e, "YUY2"))
dmo_videoenc(e) == ClassOf(e, Compressed(e, {"width", "height", "framerate"}), Raw(e, "rgb or yuv"))
dmo_audiodec(e) == ClassOf(e, Compressed(e, {"block_align", "bitrate"}), Raw(e, "up to 32"))
dmo_audioenc(e) == ClassOf(e, Compressed(e, {"block_align", "bitrate"}), Raw(e, "signed"))
\* Of QDM2 only, and without an entry.
qt_audiodec == [entry |-> None, raw |-> "int",
                compressed |-> [dll |-> "qtmlClient", version |-> 0, fields |-> {"samplerate", "channels", "framesize"}]]

\* base_init of a class of table t, whose type has c as its data: an encoder's takes
\* what is in tmp.
BaseInit(t, c, tmps) ==
  CASE Tables[t] = dshow_vdec -> dshow_videodec(c)
    [] Tables[t] = dmo_vdec -> dmo_videodec(c)
    [] Tables[t] = dmo_adec -> dmo_audiodec(c)
    [] Tables[t] = dmo_venc -> dmo_videoenc(tmps[t])
    [] Tables[t] = dmo_aenc -> dmo_audioenc(tmps[t])
    [] Tables[t] = qt_adec -> qt_audiodec

\* A second type of a name is no type: gst_element_register refuses it, and the rest of
\* the table is left out, which plugin_init does not look at.  gst_element_register
\* makes the class, unless the registry knew the element.
Register ==
  /\ More /\ Here.dll \in installed
  /\ LET t == at[1]  c == Here  name == Name(t, c)
         tmps == IF Tables[t].encoder THEN [tmp EXCEPT ![t] = c] ELSE tmp IN
     /\ tmp' = tmps
     /\ IF type[name] # None
        THEN at' = NextTable /\ UNCHANGED <<type, elements, class>>
        ELSE /\ at' = NextCodec
             /\ type' = [type EXCEPT ![name] = c]
             /\ elements' = elements \cup {name}
             /\ class' = IF cached THEN class ELSE [class EXCEPT ![name] = BaseInit(t, c, tmps)]
  /\ UNCHANGED <<installed, cached>>

\* The first instance makes the class, if nothing has yet.
Create(t, c) ==
  /\ ~More /\ Name(t, c) \in elements /\ class[Name(t, c)] = None
  /\ Cardinality({n \in Names : class[n] # None}) < MaxLate
  /\ class' = [class EXCEPT ![Name(t, c)] = BaseInit(t, type[Name(t, c)], tmp)]
  /\ UNCHANGED <<installed, cached, at, tmp, type, elements>>

Next == Skip \/ Register \/ \E t \in DOMAIN Tables : \E c \in CodecsOf(t) : Create(t, c)

Spec == Init /\ [][Next]_regVars
-----------------------------------------------------------------------------

\* Every codec whose DLL is installed gets an element of its own, which has its entry
\* and offers its formats: an encoder's only if its class was made when it was registered.
EveryCodecRegistered ==
  \A t \in DOMAIN Tables : \A c \in CodecsOf(t) :
    /\ ~More => (Name(t, c) \in elements <=> c.dll \in installed)
    /\ class[Name(t, c)] # None /\ ~(cached /\ Tables[t].encoder) =>
         LET k == class[Name(t, c)] IN
         /\ k.compressed.dll = c.dll /\ k.compressed.version = c.version
         /\ k.entry \in {None, c} /\ c.raw \in {None, k.raw}
=============================================================================

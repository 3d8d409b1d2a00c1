-------------------------------- MODULE ConfigFile --------------------------------
(***************************************************************************)
(* The configuration and its file: Load and Validate of config/config.go,  *)
(* and PostApiConfig with saveConfigToFile of adapter/http/handler_data.go,*)
(* which write a temporary file and rename it.  Several requests may be    *)
(* served at once, and the process may crash between any two calls of the  *)
(* file system.  Of a configuration, the model has the strategy's name,    *)
(* the credentials and one field with a default.                           *)
(***************************************************************************)
EXTENDS Integers

CONSTANTS
  Posts,      \* requests to POST /api/config
  Names,      \* registered strategies
  Inodes      \* files the file system can make

NoName == "no name"
NoInode == "no inode"
ASSUME ConfigAssumption == NoName \notin Names /\ NoInode \notin Inodes

VARIABLES
  content,     \* of each inode
  configPath, tmpPath,   \* the inode under each name, or NoInode
  config,      \* Server.config, or Invalid when there is no process
  envSet,      \* BITFLYER_API_KEY and _SECRET are in the environment
  post,        \* each request: progress, configuration it saves or has loaded, its inode
  overlapped,  \* history: the file is of a request that was not alone in writing
  crossed      \* history: config was loaded before another request renamed the file

configVars == <<content, configPath, tmpPath, config, envSet, post, overlapped, crossed>>

Whole == [name : Names, key : {"literal", "placeholder"}, days : {0, 1}]
Empty == [text |-> "empty"]
Torn == [text |-> "torn"]
Invalid == [text |-> "invalid"]
\* alone: no other request had a file open while this one wrote; once it has loaded, none
\* has renamed the file since.
NoPost == [pc |-> "idle", cfg |-> Invalid, inode |-> NoInode, alone |-> FALSE]

\* expandEnvVars, on the credentials.
ExpandEnvVars(key) ==
  IF key = "literal" THEN "literal" ELSE IF envSet THEN "secret" ELSE "missing"

\* Validate: some fields must be there, others have a default.
Validate(c) ==
  IF c.key = "missing" THEN Invalid ELSE [c EXCEPT !.days = IF @ = 0 THEN 1 ELSE @]

\* Load.  A torn file may parse or not; it is not relied on.
Load(inode) ==
  IF inode \in Inodes /\ content[inode] \in Whole
  THEN Validate([content[inode] EXCEPT !.key = ExpandEnvVars(@)])
  ELSE Invalid

ConfigInit ==
  /\ \E i \in Inodes, c \in Whole :
       /\ content = [j \in Inodes |-> IF j = i THEN c ELSE Empty]
       /\ configPath = i /\ tmpPath = NoInode
  /\ config = Invalid /\ envSet \in BOOLEAN
  /\ post = [p \in Posts |-> NoPost] /\ overlapped = FALSE /\ crossed = FALSE

-----------------------------------------------------------------------------

\* The process starts if the file loads, and not at all otherwise.
StartProcess ==
  /\ config = Invalid /\ Load(configPath) # Invalid
  /\ config' = Load(configPath)
  /\ UNCHANGED <<content, configPath, tmpPath, envSet, post, overlapped, crossed>>

\* PostApiConfig copies the configuration; a request may or may not name a strategy.
\* The credentials become placeholders.
Snapshot(p) ==
  /\ config # Invalid /\ post[p].pc = "idle"
  /\ \E n \in Names \cup {NoName} :
       post' = [post EXCEPT ![p] =
                 [NoPost EXCEPT !.pc = "open",
                  !.cfg = [config EXCEPT !.key = "placeholder",
                                         !.name = IF n = NoName THEN @ ELSE n]]]
  /\ UNCHANGED <<content, configPath, tmpPath, config, envSet, overlapped, crossed>>

Saving(p) == post[p].pc \in {"write", "rename"}

\* The request has a file open; it is alone if no other has one meanwhile.
Opened(p, i) ==
  LET others == {q \in Posts \ {p} : Saving(q)}
  IN [q \in Posts |->
       IF q = p THEN [post[p] EXCEPT !.pc = "write", !.inode = i, !.alone = (others = {})]
       ELSE IF q \in others THEN [post[q] EXCEPT !.alone = FALSE] ELSE post[q]]

\* Slip: the file itself is truncated.
OpenInPlace(p) ==
  /\ post[p].pc = "open"
  /\ content' = [content EXCEPT ![configPath] = Empty]
  /\ post' = Opened(p, configPath)
  /\ UNCHANGED <<configPath, tmpPath, config, envSet, overlapped, crossed>>

\* os.WriteFile, first half: create or truncate.
OpenTemp(p) ==
  /\ post[p].pc = "open"
  /\ \E i \in Inodes :
       /\ IF tmpPath = NoInode
          THEN i # configPath /\ \A q \in Posts : post[q].inode # i
          ELSE i = tmpPath
       /\ tmpPath' = i
       /\ content' = [content EXCEPT ![i] = Empty]
       /\ post' = Opened(p, i)
  /\ UNCHANGED <<configPath, config, envSet, overlapped, crossed>>

\* os.WriteFile, second half: over what another request has written meanwhile, the
\* longer text leaves its end.
WriteTemp(p) ==
  /\ post[p].pc = "write"
  /\ \E c \in {post[p].cfg} \cup (IF content[post[p].inode] = Empty THEN {} ELSE {Torn}) :
       content' = [content EXCEPT ![post[p].inode] = c]
  /\ post' = [post EXCEPT ![p].pc = "rename"]
  /\ UNCHANGED <<configPath, tmpPath, config, envSet, overlapped, crossed>>

\* Request p has renamed; what another has loaded and not installed is out of date.
Renamed(p) ==
  [q \in Posts |->
    IF q = p THEN [post[p] EXCEPT !.pc = "reload", !.inode = NoInode]
    ELSE IF post[q].pc = "install" THEN [post[q] EXCEPT !.alone = FALSE] ELSE post[q]]

\* os.Rename.  If another request has renamed the file already, this one fails.
Rename(p) ==
  /\ post[p].pc = "rename"
  /\ IF tmpPath = NoInode
     THEN post' = [post EXCEPT ![p] = NoPost] /\ UNCHANGED <<configPath, overlapped>>
     ELSE /\ configPath' = tmpPath
          /\ post' = Renamed(p)
          /\ overlapped' = ~post[p].alone
  /\ tmpPath' = NoInode
  /\ UNCHANGED <<content, config, envSet, crossed>>

\* No space, no permission: the file stays as it is, the temporary one may stay behind.
SaveFailed(p) ==
  /\ Saving(p)
  /\ post' = [post EXCEPT ![p] = NoPost]
  /\ tmpPath' \in IF post[p].pc = "rename" THEN {NoInode} ELSE {tmpPath}
  /\ UNCHANGED <<content, configPath, config, envSet, overlapped, crossed>>

\* The request loads the file, without a lock; if it does not load, the configuration
\* stays the old one.  The answer is "Configuration saved" all the same.
LoadSaved(p) ==
  /\ post[p].pc = "reload"
  /\ post' = [post EXCEPT ![p] =
               IF Load(configPath) = Invalid THEN NoPost
               ELSE [NoPost EXCEPT !.pc = "install", !.cfg = Load(configPath), !.alone = TRUE]]
  /\ UNCHANGED <<content, configPath, tmpPath, config, envSet, overlapped, crossed>>

\* Under configMu, what it has loaded becomes the configuration.
Install(p) ==
  /\ post[p].pc = "install"
  /\ config' = post[p].cfg
  /\ post' = [post EXCEPT ![p] = NoPost]
  /\ crossed' = ~post[p].alone
  /\ UNCHANGED <<content, configPath, tmpPath, envSet, overlapped>>

CrashProcess ==
  /\ config # Invalid
  /\ config' = Invalid /\ post' = [p \in Posts |-> NoPost] /\ crossed' = FALSE
  /\ UNCHANGED <<content, configPath, tmpPath, envSet, overlapped>>

ConfigNext ==
  \/ StartProcess \/ CrashProcess
  \/ \E p \in Posts : \/ Snapshot(p) \/ OpenTemp(p) \/ WriteTemp(p) \/ Rename(p)
                      \/ SaveFailed(p) \/ LoadSaved(p) \/ Install(p)
ConfigSpec == ConfigInit /\ [][ConfigNext]_configVars

-----------------------------------------------------------------------------
(* Properties                                                              *)

\* Every variable has its type.
ConfigTypeOK ==
  /\ content \in [Inodes -> Whole \cup {Empty, Torn}]
  /\ configPath \in Inodes /\ tmpPath \in Inodes \cup {NoInode}
  /\ config \in [name : Names, key : {"literal", "secret"}, days : {1}] \cup {Invalid}
  /\ envSet \in BOOLEAN /\ overlapped \in BOOLEAN /\ crossed \in BOOLEAN
  /\ \A p \in Posts :
       /\ post[p].pc \in {"idle", "open", "write", "rename", "reload", "install"}
       /\ post[p].inode \in Inodes \cup {NoInode}

Literal(i) == content[i] \in Whole /\ content[i].key = "literal"

\* Unless two requests wrote at once, or the credentials, which the file leaves to the
\* environment, are not there, a crash at any point finds a configuration that loads.
FileLoads ==
  ~overlapped /\ (envSet \/ Literal(configPath)) => Load(configPath) # Invalid

\* Then, between requests, it is the one in use, except after a request that installed
\* what it had loaded before another renamed the file (handler_data.go:304-309).
FileInUse ==
  /\ ~overlapped /\ ~crossed /\ (envSet \/ Literal(configPath))
  /\ config # Invalid /\ \A p \in Posts : post[p] = NoPost
  => config = Load(configPath)

\* What a crash at any point leaves on disk (handler_data.go:376-377), and what the
\* requests leave in use.
ConfigOnDisk == FileLoads /\ FileInUse
=============================================================================

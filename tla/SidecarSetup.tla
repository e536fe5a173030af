----------------------------- MODULE SidecarSetup -----------------------------
(***************************************************************************)
(* How the sidecar gets from its config file to its clients: parse_config  *)
(* completes the paths of the config (boltzr/src/config.rs), the log       *)
(* layers are created (tracing_setup.rs), and the clients of the lightning *)
(* nodes and of Fulmine are created from the files the config names and    *)
(* connected one after the other (lightning/lnd, lightning/cln,            *)
(* ark/client.rs, connect_client of currencies.rs).  SidecarProcess has    *)
(* the whole of this as one step that may fail.                            *)
(*                                                                         *)
(* load_certificates (grpc/tls.rs), which the gRPC server calls, is a      *)
(* specification of its own, CeSpec, with the files as they are when the   *)
(* process ends between any two writes.                                    *)
(*                                                                         *)
(* A path is the sequence of its names.  A file is modelled by what is     *)
(* read from it; a file that is not there has no entry.                    *)
(***************************************************************************)
EXTENDS Naturals, Sequences, FiniteSets, SequencesExt

CONSTANTS
    SuConfigs,      \* what the config file may say
    SuPath,         \* where it is
    SuDisks,        \* what the files of the clients may hold
    SuServers,      \* the lightning nodes and Fulmine that the config names
    MaxCePairs      \* bound: key pairs that are generated

ASSUME SuAssumption == Len(SuPath) > 0

VARIABLES
    suStage,        \* "config", "tracing", "clients" or "failed"
    suAt,           \* the client that is next
    suGiven,        \* what the config file says
    suConfig,       \* GlobalConfig
    suDirs,         \* directories that are known to be there
    suLayers,       \* layers of the subscriber
    suHandles,      \* handles of the ReloadHandler
    suDisk,         \* what the files hold
    suNew,          \* the client that was created and is not connected yet
    suLnds,         \* node id -> the client of connect_lnds
    suTasks,        \* tasks that were spawned: << what, client >>
    suClients       \* clients that are not LND and could be connected

suVars == << suStage, suAt, suGiven, suConfig, suDirs, suLayers, suHandles, suDisk, suNew, suLnds,
             suTasks, suClients >>

Unset == << >>
Garbled == 0            \* a certificate that does not parse
NotNew == "none"
NoNode == [id \in {} |-> 0]

SuInit ==
    /\ suStage = "config" /\ suAt = 1 /\ suGiven \in SuConfigs /\ suConfig = suGiven /\ suDirs = {}
    /\ suLayers = {} /\ suHandles = {} /\ suDisk \in SuDisks /\ suNew = NotNew
    /\ suLnds = NoNode /\ suTasks = {} /\ suClients = {}

-----------------------------------------------------------------------------
(* parse_config                                                            *)

Under(dir, name) == Append(dir, name)
OrElse(set, default) == IF set = Unset THEN default ELSE set

\* The paths are completed one after the other: the data directory is needed for those
\* of the log and of the certificates.
Sanitize(c) ==
    LET home == Front(SuPath)
        data == OrElse(c.dataDir, Under(home, "sidecar"))
    IN  [c EXCEPT !.mnemonic = OrElse(@, Under(home, "seed.dat")),
                  !.mnemonicEvm = OrElse(@, Under(home, "seed.dat")),
                  !.dataDir = data,
                  !.logFile = OrElse(@, Under(data, "sidecar.log")),
                  !.certificates = OrElse(@, Under(data, "certificates"))]

\* A file that cannot be read or parsed, or a directory that cannot be created.
ParseConfig ==
    /\ suStage = "config"
    /\ \/ /\ suStage' = "tracing" /\ suConfig' = Sanitize(suConfig)
          /\ suDirs' = suDirs \cup { Sanitize(suConfig).dataDir }
       \/ suStage' = "failed" /\ UNCHANGED << suConfig, suDirs >>
    /\ UNCHANGED << suAt, suGiven, suLayers, suHandles, suDisk, suNew, suLnds, suTasks, suClients >>

-----------------------------------------------------------------------------
(* setup_global_tracing                                                    *)

\* init_tracer and setup_loki: without an endpoint, or when they fail, there is no layer.
InitTracer(c) == IF c.otlp = Unset THEN { {} } ELSE { {}, { "otel" } }
SetupLoki(c) == IF c.loki = Unset THEN { {} } ELSE { {}, { "loki" } }

\* A layer is added together with the handle that reloads its filter; a log file that
\* cannot be opened is a panic.
SetupGlobalTracing ==
    /\ suStage = "tracing"
    /\ \/ \E otel \in InitTracer(suConfig), loki \in SetupLoki(suConfig) :
            /\ suLayers' = { "stdout", "file" } \cup otel \cup loki
            /\ suHandles' = { "stdout", "file" } \cup otel \cup loki
            /\ suDirs' = suDirs \cup { Front(suConfig.logFile) }
            /\ suStage' = "clients"
       \/ suStage' = "failed" /\ UNCHANGED << suLayers, suHandles, suDirs >>
    /\ UNCHANGED << suAt, suGiven, suConfig, suDisk, suNew, suLnds, suTasks, suClients >>

-----------------------------------------------------------------------------
(* The clients are created.                                                *)

SuClient == SuServers[suAt]
Wanted(kind) ==
    suStage = "clients" /\ suAt <= Len(SuServers) /\ suNew = NotNew /\ SuClient.kind = kind

Readable(files) == files \subseteq DOMAIN suDisk

\* tls::config: the certificates of the file, which has to be there and to parse.
CertsOf(file) == IF Readable({ file }) THEN suDisk[file] ELSE << >>
ConfigParses(file) == Readable({ file }) /\ Garbled \notin ToSet(suDisk[file])

Created(tasks) ==
    /\ suNew' = SuClient.kind
    /\ suTasks' = suTasks \cup { << t, suAt >> : t \in tasks }
    /\ UNCHANGED suAt

\* connect_client logs an error and the next client follows.
LeftOut == suAt' = suAt + 1 /\ UNCHANGED << suNew, suTasks >>

NewKeeps == UNCHANGED << suStage, suGiven, suConfig, suDirs, suLayers, suHandles, suDisk, suLnds,
                         suClients >>

\* Lnd::new reads the certificate and the macaroon and connects to nothing.
NewLnd ==
    /\ Wanted("lnd")
    /\ IF ConfigParses(SuClient.cert) /\ Readable({ SuClient.macaroon })
       THEN Created({}) ELSE LeftOut
    /\ NewKeeps

\* Channel::connect of the node or of the plugin, which has no timeout: a server that
\* does not answer it is waited for, and then neither happens.
Connects(made) == made \/ LeftOut

\* Hold::new comes last in Cln::new and spawns the task of the invoice caller.
NewHold == Connects(Created({ "caller" }))

NewCln ==
    /\ Wanted("cln")
    /\ IF Readable(SuClient.files) /\ Readable(SuClient.holdFiles) THEN NewHold ELSE LeftOut
    /\ NewKeeps

\* ArkClient::new: no macaroon, or one that is there.
NewArk ==
    /\ Wanted("ark")
    /\ IF SuClient.macaroon = "" \/ Readable({ SuClient.macaroon })
       THEN Connects(Created({})) ELSE LeftOut
    /\ NewKeeps

-----------------------------------------------------------------------------
(* The clients are connected: connect_client gives up after                *)
(* NODE_CONNECTION_TIMEOUT, and a client that fails is dropped.            *)

Made(kind) == suNew = kind

\* A mutant: without the comparison of the lengths.
VerifyServerCertPrefix(certs, presented) ==
    LET Sort(s) == SortSeq(s, <)
    IN  \A i \in DOMAIN certs \cap DOMAIN presented : Sort(certs)[i] = Sort(presented)[i]

\* Both lists are sorted and compared one by one.
VerifyServerCert(certs, presented) ==
    LET Sort(s) == SortSeq(s, <)
    IN  Len(certs) = Len(presented) /\ Sort(certs) = Sort(presented)

ConnectKeeps == UNCHANGED << suStage, suGiven, suConfig, suDirs, suLayers, suHandles, suDisk >>
NextClient == suAt' = suAt + 1 /\ suNew' = NotNew

DropClient ==
    /\ suNew # NotNew
    /\ NextClient /\ ConnectKeeps /\ UNCHANGED << suLnds, suTasks, suClients >>

\* connect_lnds keeps the first client of a node.
KeepFirst(id) ==
    suLnds' = IF id \in DOMAIN suLnds THEN suLnds ELSE suLnds @@ (id :> suAt)

\* Lnd::connect takes the id of the node and spawns the listener.
ConnectLnd ==
    /\ Made("lnd") /\ SuClient.id # ""
    /\ VerifyServerCert(CertsOf(SuClient.cert), SuClient.presents)
    /\ suTasks' = suTasks \cup { << "listener", suAt >> }
    /\ KeepFirst(SuClient.id)
    /\ NextClient /\ ConnectKeeps /\ UNCHANGED suClients

\* Hold::connect: get_info and the stream of onion messages, whose task is spawned.
ConnectHold == suTasks' = suTasks \cup { << "onion", suAt >> }

\* Cln::connect
ConnectCln ==
    /\ Made("cln") /\ ConnectHold
    /\ suClients' = suClients \cup { [at |-> suAt, key |-> ""] }
    /\ NextClient /\ ConnectKeeps /\ UNCHANGED suLnds

\* ArkClient::connect sets the public key that Fulmine tells, if it is one.
ConnectArk ==
    /\ Made("ark") /\ SuClient.id # ""
    /\ suClients' = suClients \cup { [at |-> suAt, key |-> SuClient.id] }
    /\ NextClient /\ ConnectKeeps /\ UNCHANGED << suLnds, suTasks >>

SuNext == ParseConfig \/ SetupGlobalTracing \/ NewLnd \/ NewCln \/ NewArk
          \/ ConnectLnd \/ ConnectCln \/ ConnectArk \/ DropClient

SuSpec == SuInit /\ [][SuNext]_suVars
-----------------------------------------------------------------------------
\* The type of the setup's state.
SuTypeOK ==
    /\ suStage \in { "config", "tracing", "clients", "failed" }
    /\ suAt \in 1 .. Len(SuServers) + 1
    /\ suLayers \subseteq { "stdout", "file", "otel", "loki" }
    /\ DOMAIN suLnds \subseteq { SuServers[i].id : i \in DOMAIN SuServers }

\* After parse_config every path is set, what the operator set is kept, and the log
\* goes to a directory that was there or has been created.
ConfigIsComplete ==
    suStage \in { "tracing", "clients" } =>
        /\ \A f \in DOMAIN suConfig :
             /\ suGiven[f] # Unset => suConfig[f] = suGiven[f]
             /\ f \in { "mnemonic", "mnemonicEvm", "dataDir", "logFile", "certificates" } =>
                  suConfig[f] # Unset
        /\ suConfig.dataDir \in suDirs
        /\ suStage = "clients" => Front(suConfig.logFile) \in suDirs

\* set_log_level reaches every layer that logs (setup_global_tracing).
LayersAreReloadable == suHandles = suLayers

Occurrences(s, x) == Cardinality({ i \in DOMAIN s : s[i] = x })
SameCertificates(s, t) == \A x \in ToSet(s) \cup ToSet(t) : Occurrences(s, x) = Occurrences(t, x)

\* A node is accepted exactly with the certificates of its file, in any order
\* (verify_server_cert).
CertificatesArePinned ==
    \A i \in DOMAIN SuServers :
        SuServers[i].kind = "lnd" /\ ConfigParses(SuServers[i].cert) =>
            ( VerifyServerCert(CertsOf(SuServers[i].cert), SuServers[i].presents)
              <=> SameCertificates(CertsOf(SuServers[i].cert), SuServers[i].presents) )

\* Every node is connected through the first of its clients in the config that could be
\* connected, with the certificates of its file, and the listener of that client runs; a
\* client that is not kept has one only if it is another one of a node that is
\* (connect_lnds, Lnd::connect).
LndsAreOfTheirNodes ==
    /\ \A id \in DOMAIN suLnds :
         LET kept == SuServers[suLnds[id]]
         IN  /\ kept.id = id /\ << "listener", suLnds[id] >> \in suTasks
             /\ SameCertificates(suDisk[kept.cert], kept.presents)
    /\ \A t \in suTasks :
         t[1] = "listener" =>
             LET id == SuServers[t[2]].id
             IN  id \in DOMAIN suLnds /\ suLnds[id] <= t[2]

\* Onion messages are taken only with a caller for the webhooks of the offers, and a
\* client of CLN is there only with both (Cln::new, Hold::connect); the key of Ark is
\* the one Fulmine told.
ClientsAreComplete ==
    /\ \A t \in suTasks : t[1] = "onion" => << "caller", t[2] >> \in suTasks
    /\ \A c \in suClients :
         /\ SuServers[c.at].kind = "cln" => << "onion", c.at >> \in suTasks
         /\ SuServers[c.at].kind = "ark" => c.key # "" /\ c.key = SuServers[c.at].id

\* The process has the paths, the layers and the clients of its config.
SetupIsSound ==
    /\ ConfigIsComplete /\ LayersAreReloadable /\ CertificatesArePinned
    /\ LndsAreOfTheirNodes /\ ClientsAreComplete
-----------------------------------------------------------------------------
(* load_certificates                                                       *)

VARIABLES
    ceKeys,         \* name -> its key file: mode, and the key pair it holds
    ceCerts,        \* name -> its certificate: the key pair and that of its issuer
    ceStep,         \* the next step for the certificate that is next
    ceName,         \* which one that is
    ceRead,         \* what was read or generated: the keys and certificates so far
    cePairs         \* key pairs that were generated

ceVars == << ceKeys, ceCerts, ceStep, ceName, ceRead, cePairs >>

\* The certificates, in the order of load_certificates.
CertificateNames == << "ca", "server", "client" >>
CeName == CertificateNames[ceName]

CutKey == 0                             \* a key file that is empty or cut off
CutCert == [pair |-> 0, issuer |-> 0]   \* and such a certificate

CeInit ==
    /\ ceKeys = << >> /\ ceCerts = << >> /\ ceStep = "off" /\ ceName = 1
    /\ ceRead = << >> /\ cePairs = 0

LoadCertificates ==
    /\ ceStep = "off" /\ ceStep' = "look" /\ ceName' = 1 /\ ceRead' = << >>
    /\ UNCHANGED << ceKeys, ceCerts, cePairs >>

\* The CA has to parse, to sign the others; they are not looked at.
IsIssuer(read) == read.key # CutKey /\ read.cert # CutCert

\* ServerTlsConfig takes the identity of the server, which has to parse, and the CA.
TlsConfig(all) == all[2].key # CutKey /\ all[2].cert # CutCert

CeReads(read) ==
    LET all == Append(ceRead, read)
    IN  /\ ceRead' = all
        /\ ceName' = IF ceName = 3 THEN 3 ELSE ceName + 1
        /\ ceStep' = CASE ceName = 1 /\ ~IsIssuer(read) -> "off"
                       [] ceName = 3 -> IF TlsConfig(all) THEN "served" ELSE "off"
                       [] OTHER -> "look"

\* generate_or_load_certificate: what is there is read, and when either file is missing
\* both are generated.
GenerateOrLoadCertificate ==
    /\ ceStep = "look"
    /\ IF CeName \in DOMAIN ceKeys \cap DOMAIN ceCerts
       THEN CeReads([key |-> ceKeys[CeName].pair, cert |-> ceCerts[CeName]])
       ELSE ceStep' = "create key" /\ UNCHANGED << ceName, ceRead >>
    /\ UNCHANGED << ceKeys, ceCerts, cePairs >>

\* File::create empties a file that is there and leaves its mode.
KeyFile(mode, pair) == ceKeys' = (CeName :> [mode |-> mode, pair |-> pair]) @@ ceKeys
CreatedMode == IF CeName \in DOMAIN ceKeys THEN ceKeys[CeName].mode ELSE "default"

CeGoes(from, to) ==
    ceStep = from /\ ceStep' = to /\ UNCHANGED << ceName, ceRead >>

\* A mutant: the key is written when the file is created, and the mode set afterwards.
CreateKeyAtOnce ==
    /\ cePairs < MaxCePairs
    /\ CeGoes("create key", "set mode") /\ cePairs' = cePairs + 1
    /\ KeyFile(CreatedMode, cePairs + 1) /\ UNCHANGED ceCerts

\* generate_certificate, one access to the disk after the other.
CreateKey ==
    /\ cePairs < MaxCePairs
    /\ CeGoes("create key", "set mode") /\ cePairs' = cePairs + 1
    /\ KeyFile(CreatedMode, CutKey) /\ UNCHANGED ceCerts

SetMode ==
    /\ CeGoes("set mode", "write key")
    /\ KeyFile("private", ceKeys[CeName].pair) /\ UNCHANGED << ceCerts, cePairs >>

WriteKey ==
    /\ CeGoes("write key", "create cert")
    /\ KeyFile(ceKeys[CeName].mode, cePairs) /\ UNCHANGED << ceCerts, cePairs >>

CreateCert ==
    /\ CeGoes("create cert", "write cert")
    /\ ceCerts' = (CeName :> CutCert) @@ ceCerts /\ UNCHANGED << ceKeys, cePairs >>

\* The CA signs itself; the issuer of the others is the CA that was read.
WriteCert ==
    LET cert == [pair |-> cePairs,
                 issuer |-> IF ceName = 1 THEN cePairs ELSE ceRead[1].key]
    IN  /\ ceStep = "write cert"
        /\ ceCerts' = (CeName :> cert) @@ ceCerts
        /\ CeReads([key |-> cePairs, cert |-> cert])
        /\ UNCHANGED << ceKeys, cePairs >>

\* A step fails or the process ends; it starts over with the files as they are.
CeInterrupted ==
    /\ ceStep # "off" /\ ceStep' = "off"
    /\ UNCHANGED << ceKeys, ceCerts, ceName, ceRead, cePairs >>

CeNext == LoadCertificates \/ GenerateOrLoadCertificate \/ CreateKey \/ SetMode \/ WriteKey
          \/ CreateCert \/ WriteCert \/ CeInterrupted

CeSpec == CeInit /\ [][CeNext]_ceVars
-----------------------------------------------------------------------------
\* The type of the certificates.
CeTypeOK ==
    /\ DOMAIN ceCerts \subseteq DOMAIN ceKeys /\ DOMAIN ceKeys \subseteq ToSet(CertificateNames)
    /\ ceName \in 1 .. 3 /\ Len(ceRead) <= 3 /\ cePairs \in 0 .. MaxCePairs

\* A key is only ever in a file that nobody else can read (generate_certificate sets the
\* mode before it writes).
KeysArePrivate ==
    \A n \in DOMAIN ceKeys : ceKeys[n].pair # CutKey => ceKeys[n].mode = "private"

\* However often the process was interrupted, a certificate on the disk is cut off or is
\* that of the key next to it and was issued by the CA next to it: a CA that has issued
\* one is never generated again (load_certificates).
CertificatesAreIssued ==
    \A n \in DOMAIN ceCerts :
        ceCerts[n] # CutCert =>
            /\ ceKeys[n].pair = ceCerts[n].pair
            /\ "ca" \in DOMAIN ceCerts /\ ceCerts[n].issuer = ceCerts["ca"].pair

\* The server runs with what is on the disk: the backend finds there the CA that the
\* server is verified with.
ServedIsStored ==
    ceStep = "served" =>
        \A i \in 1 .. 3 : ceRead[i] = [key |-> ceKeys[CertificateNames[i]].pair,
                                        cert |-> ceCerts[CertificateNames[i]]]

\* The certificates of the gRPC server fit together after any interruption.
CertificatesFit == KeysArePrivate /\ CertificatesAreIssued /\ ServedIsStored
=============================================================================

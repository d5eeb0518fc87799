------------------------------- MODULE Config -------------------------------
(* The configuration of the server (Config, DomainInfo, AppInfo, ConfigMgr): *)
(* what becomes of a configuration file and of the domain files it names.    *)
(* A file is what can be told of its JSON: whether it parses, which members  *)
(* it has, and whether every member that is read can be converted to the     *)
(* type it is read as ("typed"); if not, an exception that nobody catches.   *)
EXTENDS Integers, SequencesExt

CONSTANT
  UintModulus  (* of uint32_t                                                *)

ASSUME ConfigAssumption == UintModulus \in Nat \ {0}

Absent == -1
NoName == "none"

Given(value, default) == IF value = Absent THEN default ELSE value
GivenName(name) == IF name = NoName THEN "" ELSE name

(* std::unordered_map: emplace leaves an entry that is there alone.           *)
Emplace(map, key, value) ==
  [k \in DOMAIN map \cup {key} |-> IF k \in DOMAIN map THEN map[k] ELSE value]

(* erase, then emplace.                                                      *)
Replace(map, key, value) == [k \in DOMAIN map \cup {key} |-> IF k = key THEN value ELSE map[k]]

(* In seconds in the file, in milliseconds here.                             *)
ParseAppInfo(app) ==
  [app_name |-> GivenName(app.name),
   max_buffer |-> Given(app.max_buffer, 1000),
   content_latency |-> IF app.content_latency = Absent THEN 3 * 1000
                       ELSE (app.content_latency * 1000) % UintModulus,
   rtmp_support |-> app.rtmp_support = "on"]

(* The first application of a name stays.                                    *)
AddApp(infos, app) == Emplace(infos, ParseAppInfo(app).app_name, ParseAppInfo(app))

ParseApps(apps) == FoldLeft(AddApp, <<>>, apps)

Readable(file) == file.parses /\ file.domain /\ file.app

(* A domain that an earlier file described is replaced, with all its         *)
(* applications.                                                             *)
ParseDomainFileOnce(domains, file) ==
  IF Readable(file) THEN Emplace(domains, GivenName(file.name), ParseApps(file.apps))
  ELSE domains

ParseDomainFile(domains, file) ==
  IF Readable(file) THEN Replace(domains, GivenName(file.name), ParseApps(file.apps))
  ELSE domains

(* Hidden files and directories inside are passed over.                      *)
PassedOver(entry) == entry.hidden \/ ~entry.regular

ReadEntry(domains, entry) ==
  IF PassedOver(entry) THEN domains ELSE ParseDomainFile(domains, entry.file)

ParseDomainPath(domains, entries) == FoldLeft(ReadEntry, domains, entries)

(* An entry of "directory" is a directory, a file, or something else.        *)
ParseEntry(domains, entry) ==
  CASE entry.is = "directory" -> ParseDomainPath(domains, entry.entries)
    [] entry.is = "file"      -> ParseDomainFile(domains, entry.entries[1].file)
    [] OTHER                  -> domains

ParseDirectory(directory) == FoldLeft(ParseEntry, <<>>, directory)

(* A service without "port" has the default "0", a string, which asUInt      *)
(* refuses: "port" says that there is a number.                              *)
ServicesThrow(services) == \E i \in DOMAIN services : ~services[i].port

(* A member of "directory" that is no text, or a domain file that is read.   *)
FileThrows(file) == file.parses /\ ~file.typed

EntryThrows(entry) ==
  \/ entry.is = "no text"
  \/ entry.is = "file" /\ FileThrows(entry.entries[1].file)
  \/ /\ entry.is = "directory"
     /\ \E j \in DOMAIN entry.entries :
          ~PassedOver(entry.entries[j]) /\ FileThrows(entry.entries[j].file)

DirectoryThrows(directory) == \E i \in DOMAIN directory : EntryThrows(directory[i])

(* The member is read as "portocol", and is "rtmp" without.                  *)
Protocol(service) == IF service.portocol = NoName THEN "rtmp" ELSE service.portocol

ParseServiceInfo(services) == [i \in DOMAIN services |-> Protocol(services[i])]

NoConfig == [loaded |-> FALSE, thread_num_ |-> -1, services |-> <<>>, domains |-> <<>>]

(* Config::LoadConfig, in the order it reads: "ok", "failed" or "throws".     *)
LoadResult(file) ==
  IF ~file.parses THEN "failed"
  ELSE IF ~file.typed THEN "throws"
  ELSE IF ~file.array THEN "failed"
  ELSE IF ServicesThrow(file.services) \/ DirectoryThrows(file.directory) THEN "throws"
  ELSE "ok"

NewConfig(file) ==
  [loaded |-> TRUE, thread_num_ |-> file.threads,
   services |-> ParseServiceInfo(file.services),
   domains |-> ParseDirectory(file.directory)]

(* ConfigMgr::LoadConfig keeps what it has unless all of the file was good.  *)
LoadConfig(config, file) ==
  IF LoadResult(file) = "ok" THEN NewConfig(file) ELSE config

GetAppInfo(config, domain, app) ==
  IF domain \in DOMAIN config.domains /\ app \in DOMAIN config.domains[domain]
  THEN {config.domains[domain][app]} ELSE {}

-----------------------------------------------------------------------------
(* What the files say, without the steps of parsing them. A place <<i, j>>   *)
(* is entry j of member i of "directory"; a member that is a file has one    *)
(* entry. Of the places that describe a domain the last one counts, and of   *)
(* its applications of one name the first.                                   *)
Places(directory) == UNION {{i} \X DOMAIN directory[i].entries : i \in DOMAIN directory}

FileAt(directory, p) == directory[p[1]].entries[p[2]].file

Describes(directory, p, domain) ==
  /\ \/ directory[p[1]].is = "file"
     \/ directory[p[1]].is = "directory" /\ ~PassedOver(directory[p[1]].entries[p[2]])
  /\ Readable(FileAt(directory, p)) /\ GivenName(FileAt(directory, p).name) = domain

Before(p, q) == p[1] < q[1] \/ (p[1] = q[1] /\ p[2] < q[2])

(* The last of the places in D that describe domain, if there is one.        *)
LastPlace(directory, D, domain) ==
  {p \in D : /\ Describes(directory, p, domain)
             /\ \A q \in D : Describes(directory, q, domain) => ~Before(p, q)}

FirstApp(apps, app) ==
  LET named == {i \in DOMAIN apps : GivenName(apps[i].name) = app}
  IN  {ParseAppInfo(apps[i]) : i \in {i \in named : \A j \in named : i <= j}}

AsWritten(file, domain, app) ==
  UNION {FirstApp(FileAt(file.directory, p).apps, app) :
           p \in LastPlace(file.directory, Places(file.directory), domain)}

(* A list as JSON and readdir give it.                                       *)
List(s) == s \in Seq({s[i] : i \in DOMAIN s})

Listed(directory) ==
  /\ List(directory)
  /\ \A i \in DOMAIN directory :
       /\ List(directory[i].entries)
       /\ directory[i].is = "file" => DOMAIN directory[i].entries = {1}
       /\ \A j \in DOMAIN directory[i].entries :
            LET f == directory[i].entries[j].file IN Readable(f) => List(f.apps)
=============================================================================

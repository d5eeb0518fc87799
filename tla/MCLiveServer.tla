---------------------------- MODULE MCLiveServer ----------------------------
(* Configurations for the programs to start with: what can be wrong with a  *)
(* file, and every order of three domain files.                             *)
EXTENDS LiveServer

MCPrograms == {"main", "RtmpServerTest", "EventLoopThreadTest", "DnsServerTest"}

MCInterval(task) == 1
MCRestarts(task) == TRUE

MCNames == {"", "a", "b"}

App(name, latency) ==
  [name |-> name, max_buffer |-> Absent, content_latency |-> latency,
   rtmp_support |-> "on"]

Domain(name, apps) ==
  [parses |-> TRUE, typed |-> TRUE, domain |-> TRUE, app |-> TRUE, name |-> name, apps |-> apps]

DomainFiles ==
  {Domain("a", <<App("a", 1), App("a", 2)>>),
   Domain("a", <<App("b", Absent), App(NoName, 3)>>),
   Domain(NoName, <<App("b", 5)>>),
   [Domain("a", <<>>) EXCEPT !.parses = FALSE],
   [Domain("b", <<>>) EXCEPT !.app = FALSE]}

Entry(f, hidden, regular) == [file |-> f, hidden |-> hidden, regular |-> regular]

File(f) == [is |-> "file", entries |-> <<Entry(f, FALSE, TRUE)>>]

Directory(f, g) ==
  [is |-> "directory", entries |-> <<Entry(f, FALSE, TRUE), Entry(g, TRUE, TRUE),
                                     Entry(g, FALSE, FALSE)>>]

Missing == [is |-> "other", entries |-> <<>>]

Untyped == [Domain("a", <<>>) EXCEPT !.typed = FALSE]

Service(portocol) == [port |-> TRUE, portocol |-> portocol]

Plain(directory) ==
  [parses |-> TRUE, typed |-> TRUE, array |-> TRUE, threads |-> 1,
   services |-> <<Service("rtmp")>>, directory |-> directory]

MCFiles ==
  {Plain(<<File(f), File(g)>>) : f, g \in DomainFiles}
    \cup {Plain(<<File(f), Directory(g, f), Missing>>) : f, g \in DomainFiles}
    \cup {[Plain(<<>>) EXCEPT !.services = <<Service(NoName), Service("HTTP")>>,
                              !.threads = n] : n \in {Absent, 2}}
    \cup {Plain(<<File(f), Directory(f, Untyped), d>>) :
            f \in DomainFiles, d \in {File(Untyped), Directory(Untyped, Untyped),
                                    [is |-> "no text", entries |-> <<>>],
                                    File([Untyped EXCEPT !.parses = FALSE])}}
    \cup {[Plain(<<>>) EXCEPT !.parses = FALSE], [Plain(<<>>) EXCEPT !.array = FALSE],
          [Plain(<<>>) EXCEPT !.typed = FALSE],
          [Plain(<<>>) EXCEPT !.services = <<[port |-> FALSE, portocol |-> NoName]>>]}

(* The index is an int, and size_t when it is reduced.                      *)
MCIndexes == {-1, 0, 5}
=============================================================================

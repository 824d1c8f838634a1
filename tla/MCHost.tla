------------------------------- MODULE MCHost -------------------------------
(* Small instances of Host for TLC. *)
EXTENDS Host

Opt(o, a) == [opt |-> o, arg |-> a]

\* console.py: run_client, run_server, and the commands of the two README.md.
ClientArgs(tx, rcv, a) ==
    << Opt("s", 50), Opt("i", 5), Opt("b", "t"), Opt("r", rcv), Opt("e", tx),
       Opt("o", "b"), Opt("a", a), Opt("n", 2) >>
ServerArgs(bm, mem, a) ==
    << Opt("m", "s"), Opt("t", "f"), Opt("s", 50), Opt("b", bm), Opt("r", 8),
       Opt("o", mem), Opt("a", a), Opt("P", "netlock") >>
ReadmeClient == << Opt("l", 10000), Opt("r", 2), Opt("b", "s"), Opt("n", 1), Opt("s", 50) >>
ReadmeServer == << Opt("l", 10000), Opt("b", "s"), Opt("n", 1), Opt("s", 50) >>

Host(program, lcores, ports, args) ==
    [program |-> program, lcores |-> lcores, ports |-> ports, argv |-> args]

\* The experiments of console.py: task, benchmark and memory management. "r" and
\* "S" are among them.
Experiments ==
    {<< "s", "s", "b" >>, << "x", "x", "b" >>, << "c", "x", "b" >>,
     << "m", "t", "b" >>, << "m", "t", "w" >>, << "S", "v", "b" >>,
     << "t", "t", "b" >>, << "p", "t", "b" >>, << "q", "t", "b" >>,
     << "g", "t", "b" >>, << "f", "t", "b" >>, << "r", "t", "b" >>,
     << "e", "s", "b" >>}

Measuring(sendLimit, interval, rcv, e, experiment) ==
    << Opt("s", sendLimit), Opt("i", interval), Opt("r", rcv), Opt("e", e),
       Opt("a", experiment[1]), Opt("b", experiment[2]), Opt("o", experiment[3]) >>

\* Every experiment on the smallest server; clients that count the locks of their
\* transactions or, in a micro-benchmark, their grants, one that samples, a server
\* that counts, and one told to divide by 0.
MCMeasured ==
    {Host("server", 1, 1, << Opt("t", "f") >> \o Measuring(50, 5, 8, 4, e)) :
        e \in Experiments}
    \cup {Host("client", 2, 1, Measuring(50, 5, 1, 1, << "p", "t", "b" >>)),
          Host("client", 2, 1, Measuring(50, 5, 1, 1, << "s", "s", "b" >>)),
          Host("client", 2, 1, Measuring(1, 1, 2, 1, << "p", "t", "b" >>)),
          Host("server", 2, 1, << Opt("t", "f") >>
                                 \o Measuring(50, 5, 1, 1, << "p", "t", "b" >>)),
          Host("server", 2, 1, << Opt("t", "f") >>
                                 \o Measuring(50, 0, 8, 1, << "p", "t", "b" >>))}

MCHosts == MCMeasured \cup
    {Host("client", lcores, 1, ClientArgs(e, rcv, "f")) :
        lcores \in {4, 6}, e \in {1, 2, 4, 7}, rcv \in {1, 2, 4}}
    \cup {Host("server", lcores, ports, ServerArgs(bm, mem, a)) :
        lcores \in {1, 4}, ports \in {0, 1, 2}, bm \in {"t", "x"},
        mem \in {"b", "w"}, a \in {"p", "q", "e"}}
    \cup {Host("client", 4, 1, ReadmeClient), Host("server", 4, 1, ReadmeServer)}
    \cup {Host("server", lcores, 4, << Opt("p", mask) >> \o ServerArgs("t", "b", "p")) :
             lcores \in {4, 6}, mask \in {2, 3, 6, 15, 16, 0}}
    \cup {Host("client", 6, 2, << Opt("p", mask) >> \o ClientArgs(9, 1, "f")) :
             mask \in {1, 3}}
    \cup {Host("client", 4, 1, << Opt("O", -1) >>),
          Host("client", 4, 1, << Opt("b", "q") >>),
          Host("client", 4, 1, << Opt("T", 0), Opt("z", 0), Opt("c", 3), Opt("q", 0) >>),
          Host("client", 4, 1, << Opt("P", "netlock") >>),
          Host("server", 1, 1, << Opt("r", 8), Opt("z", 100), Opt("b", "t") >>),
          Host("server", 1, 1, << Opt("r", 8), Opt("b", "t"), Opt("a", "p") >>)}
    \cup {Host("client", 4, 1, ClientArgs(2, 2, "g")),
          Host("client", 4, 1, ClientArgs(2, 2, "q"))}
    \cup {Host("client", 3, 1, << Opt("r", 1), Opt("b", "x"), Opt("c", c), Opt("e", 2),
                                Opt("n", 1) >>) : c \in {1, 2, 12}}

\* What may lie on the stack where an int was never set.
MCUninitialised == {0, 2, -1}

Row(lock, len) == [lock |-> lock, len |-> len]

MCLayouts ==
    [incast        |-> << Row(3, 2), Row(0, 4), Row(2, 1) >>,
     multiserver   |-> << Row(1, 3), Row(3, 3) >>,
     incast_map    |-> << Row(0, 2) >>,
     incast_random |-> << Row(2, 5), Row(1, 1) >>,
     empty         |-> << >>]
=============================================================================

------------------------------- MODULE Wiring --------------------------------
(***************************************************************************)
(* What main.go derives from the monitors of a configuration for one       *)
(* chain.  The monitors are a sequence of records                          *)
(*     [id, chain, addr, conf, rules]                                      *)
(* whose fields are those of config.Monitor; an empty string stands for a  *)
(* field left out.  A rule is a record [ok, to]: whether its expression    *)
(* compiles, and its receivers.                                            *)
(***************************************************************************)
EXTENDS Integers, Sequences

Elements(s) == {s[i] : i \in DOMAIN s}

OnChain(ms, ch) == {m \in Elements(ms) : m.chain = ch}

\* The level a monitor asks for; fast when it names none, or one that does not exist.
Confirmation(m) == IF m.conf \in {"safe", "finalized"} THEN m.conf ELSE "fast"

\* The addresses each log fetcher asks for.
MonitorAddressesByConfirmation(ms, ch, conf) ==
    {m.addr : m \in {x \in OnChain(ms, ch) : x.addr # "" /\ Confirmation(x) = conf}}

\* The monitors given to Decoder.Register, each at its place in the file.
MonitorSpecs(ms, ch) ==
    [i \in {i \in DOMAIN ms : ms[i].chain = ch /\ ms[i].addr # ""} |-> ms[i]]

\* Register keys monitors by address: a later one replaces an earlier one.
MonitorOf(specs, a) ==
    specs[CHOOSE i \in DOMAIN specs :
            specs[i].addr = a /\ \A j \in DOMAIN specs : specs[j].addr = a => j <= i]

\* Decode finds an ABI for the address.
Decodes(specs, a) == \E i \in DOMAIN specs : specs[i].addr = a
==============================================================================

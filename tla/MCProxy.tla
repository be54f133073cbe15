------------------------------- MODULE MCProxy -------------------------------
(* Instances of Proxy for TLC: values the configurations choose from.      *)
EXTENDS ProxyProperties

NoBytes  == [client |-> 0, server |-> 0]
OneEach  == [client |-> 1, server |-> 1]
ServerTalks == [client |-> 0, server |-> 3]
TwoWay   == [client |-> 3, server |-> 1]
TwoOne   == [client |-> 2, server |-> 1]

With(opts) == [opts |-> opts, rest |-> 4]
Plain    == {With({})}
Egress   == {With({"o"})}
BothEnds == {With({"i", "o"})}
Modes    == Plain \cup Egress \cup BothEnds
PlainOrWrong == Plain \cup {With({"i", "h"}), [opts |-> {"o"}, rest |-> 3]}
=============================================================================

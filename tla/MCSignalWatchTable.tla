------------------------- MODULE MCSignalWatchTable -------------------------
(* An instance of SignalWatchTable for TLC: two watches under one key with
   different senders and arguments, a third that shares that key and follows the
   owner of a name, and watches with an unset path, an unset member, and nothing
   set; signals that hit and miss each field, one of them with no path and one
   from the owner of the name. *)
EXTENDS SignalWatchTable

CONSTANTS w1, w2, w3, w4, w5

MCWatches == {w1, w2, w3, w4, w5}

TheRule(sender, path, interface, member, arg0) ==
  [type |-> "signal", sender |-> sender, path |-> path, interface |-> interface,
   member |-> member, arg0 |-> arg0, senderNameOwner |-> ""]

MCRuleOf ==
  [w \in MCWatches |->
     CASE w = w1 -> TheRule(":1", "/foo", "Foo", "Bar", "")
       [] w = w2 -> TheRule("", "/foo", "Foo", "Bar", "x")
       [] w = w3 -> TheRule("com.Name", "/foo", "Foo", "Bar", "")
       [] w = w4 -> TheRule("", "", "Foo", "Bar", "")
       [] w = w5 -> TheRule("", "", "", "", "")]

TheSignal(sender, path, interface, member, arg0) ==
  [type |-> "signal", sender |-> sender, path |-> path, interface |-> interface,
   member |-> member, arg0 |-> arg0]

MCSignals ==
  {TheSignal(":1", "/foo", "Foo", "Bar", ""), TheSignal(":2", "/foo", "Foo", "Bar", "x"),
   TheSignal(":1", "/foo", "Foo", "Baz", ""), TheSignal("", "", "Foo", "Bar", "x"),
   TheSignal(":2", "/baz", "Foo", "", "y")}
=============================================================================

--------------------------- MODULE MCMediaServer ---------------------------
(* MediaServer for TLC. *)
EXTENDS MediaServer

Scene(clients, kinds, bounds) ==
    [clients |-> clients, kinds |-> kinds, requests |-> bounds[1], faults |-> bounds[2],
     changes |-> bounds[3], restarts |-> bounds[4]]

MCScenes ==
    { \* any request, a fault and a restart
      Scene({1}, {"channel", "player", "storage", "pusher"}, <<1, 1, 0, 1>>),
      \* a stream, a player or the channel goes away in the middle of something
      Scene({1}, {"channel", "player", "storage"}, <<2, 1, 0, 0>>),
      \* two requests at the same time
      Scene({1, 2}, {"channel", "player", "pusher", "history"}, <<3, 0, 0, 0>>),
      \* a history pusher cannot be opened while others are
      Scene({1, 2}, {"history"}, <<4, 0, 0, 0>>),
      \* the device goes offline, with a synchronisation asked for
      Scene({1}, {"channel", "player", "sync"}, <<1, 1, 1, 0>>) }
=============================================================================

SPECIFICATION Spec
CONSTANTS
  feed = feed
  page = page
  local = local
  Keys = {feed, page, local}
  Adapter <- MCAdapter
  Editions <- MCEditions
  Requests <- MCRequests
  FirstAllowed <- MCFirstAllowed
INVARIANT OnlyProvenIsLive
INVARIANT BlamesTheNetworkRightly
PROPERTY NeverQuietlyNothing

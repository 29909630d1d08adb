SPECIFICATION ProviderSpec
CONSTANTS
  Hosts = {h1, h2}
  Getters = {c1, c2}
  Requesters = {c1}
PROPERTIES
  Reconnects

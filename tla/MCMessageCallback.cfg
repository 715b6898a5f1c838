SPECIFICATION Spec
CONSTANTS IntMin <- MCIntMin
          Messages <- MCMessages
          PayloadMax = 4
          MaxFragment = 3
          MaxSelfSigned = 2
          DeviceLength = 1
          PublishLength = 1
INVARIANTS BufferOK MeansTheMessage JobsUsable EchoesDoNotMultiply
